---- MODULE Spec2Model ----
(***************************************************************************)
(* A model of the task orchestration engine and the entitlement ledger of  *)
(* the stock analysis service: the daily quota ledger (UserService), the   *)
(* asynchronous analysis tasks (AnalysisService) and the order/membership  *)
(* state machine (MembershipService).                                      *)
(*                                                                         *)
(* The database is a set of tables.  A session reads the committed rows    *)
(* statement by statement and writes its pending changes when it commits;  *)
(* a session left without a commit writes nothing.  An ORM update writes   *)
(* only the columns the session changed, with the values computed in the   *)
(* process from what the session had read.                                 *)
(*                                                                         *)
(* Time is counted in clock ticks.  A calendar day is shortened to         *)
(* TicksPerDay ticks, so that deadlines and expiry dates are reached       *)
(* within MaxTime ticks.                                                   *)
(***************************************************************************)
EXTENDS Integers, Sequences, FiniteSets, TLC

\* ------------------------------------------------------------------ bounds
NumUsers == 2          \* users 1..NumUsers
NumReq == 2            \* concurrent request threads
NumCodes == 1          \* stock codes 1..NumCodes
NumPlans == 2          \* membership plans 1..NumPlans
MaxCalls == 3          \* calls started in one behaviour
MaxTime == 3           \* the clock runs from 0 to MaxTime
TicksPerDay == 2       \* clock ticks in one (shortened) calendar day
FreeDailyLimit == 2    \* free tier daily limit (configuration value)
MaxWorkers == 2        \* max_workers of the pool
MaxSubmits == 3        \* submit_analysis calls in one behaviour of the pool
MaxTaskTime == 1       \* the clock's last instant in the behaviours of the pool
MaxPrice == 2          \* the highest plan price
MaxNewOrders == 1
MaxList == 2
MaxReadSubmits == 2       \* orders created in one behaviour of the catalogue
NumBuyers == 2         \* users who buy or are given a membership
NumTx == 2             \* concurrent membership calls
MaxOrders == 2         \* rows of the orders table
OrderTTL == 2          \* an order's payment window (hours=2), in ticks

Users == 1..NumUsers
ReqIds == 1..NumReq
Codes == 1..NumCodes
PlanIds == 1..NumPlans
Workers == 1..MaxWorkers
\* The pools the executor property can make: one per thread that saw none.
Pools == ReqIds
TxIds == 1..NumTx
Buyers == 1..NumBuyers
\* MembershipPlan.price, and the discounts a caller may pass to create_order.
Prices == 1..MaxPrice
Discounts == 0..(MaxPrice + 1)
\* MembershipPlan.name
PlanNames == {"weekly card", "monthly card"}
Unlimited == -1
NoRow == 0
Anonymous == 0
NoTime == -1

VARIABLES
    now,        \* datetime.now(), in ticks
    usage,      \* table daily_usage: a sequence of rows, in insertion order
    total,      \* users.total_analysis_count
    charged,    \* per user and day: increment_analysis_count calls returned
    req,        \* each request thread: the call it runs and its locals
    ncalls,     \* calls started so far
    tasks,      \* AnalysisService._tasks, the in-process cache, by task id
    queue,      \* each pool's work queue, oldest first
    worker,     \* each pool's threads: the work item each runs
    executor,   \* AnalysisService._executor: the pool submissions go to
    stored,     \* the analysis_tasks table: the status and user of each task id's row
    history,    \* how many analysis-history rows carry each task id
    mails,      \* how many reports were mailed for each task id
    runs,       \* how many times the unit of work was invoked for each task id
    single,     \* AnalysisService._instance, the holder of _lock, and how many
                \* instances were constructed
    plans,      \* table membership_plans
    orders,     \* table orders, in insertion order
    mships,     \* table user_memberships, in insertion order
    snap,       \* users.membership_level and users.membership_expire
    hooks,      \* per buyer: the calls of the referral reward hook, the buyer's
                \* referral record and the bonus it brought the referrer
    txn         \* each membership call in progress: its session and locals

ledgerVars == <<usage, total, charged>>
reqVars == <<req, ncalls>>
taskVars == <<tasks, queue, worker, executor, stored, history, mails, runs, single>>
memberVars == <<plans, orders, mships, snap, hooks, txn>>
vars == <<now, ledgerVars, reqVars, taskVars, memberVars>>

\* ------------------------------------------------------------ clock, dates
\* date.today(): the calendar day of the current instant.
DateOf(t) == t \div TicksPerDay

\* timedelta(days=n), in ticks.
DaysDelta(n) == n * TicksPerDay

Days == 0..DateOf(MaxTime)

\* The clock advances.
Tick ==
    /\ now' = now + 1
    /\ UNCHANGED <<ledgerVars, reqVars, taskVars, memberVars>>

\* --------------------------------------------------------------- the users
\* User.is_membership_valid
IsMembershipValid(u, t) ==
    IF snap[u].level = "free" THEN FALSE
    ELSE IF snap[u].expire = NoTime THEN TRUE
    ELSE snap[u].expire > t

\* The system_configs rows a call may find under a key: none (or one without a
\* usable value), or one holding an integer.
NoConfig == <<>>

ConfigRows == {NoConfig} \cup {<<v>> : v \in -1..(FreeDailyLimit + 1)}

\* UserService._get_system_config
GetSystemConfig(conf, default) == IF conf = NoConfig THEN default ELSE conf[1]

\* UserService._get_daily_analysis_limit, with the free_daily_limit rows conf
GetDailyAnalysisLimit(u, t, conf) ==
    IF IsMembershipValid(u, t) THEN Unlimited ELSE GetSystemConfig(conf, FreeDailyLimit)

\* MembershipPlan.daily_analysis_limit (column default).
PlanDailyLimit(pl) == Unlimited

\* The rows of get_user_membership's query: active, expire_at > now.
ValidMships(u, t) ==
    {i \in 1..Len(mships) :
        mships[i].user = u /\ mships[i].status = "active" /\ mships[i].expire > t}

\* MembershipService.get_user_benefits, the daily_analysis_limit it reports.
\* Only called when at most one membership row is valid.
BenefitsLimit(u, t) ==
    IF ValidMships(u, t) # {}
    THEN PlanDailyLimit(mships[CHOOSE i \in ValidMships(u, t) : TRUE].plan)
    ELSE IF IsMembershipValid(u, t) THEN Unlimited
    ELSE FreeDailyLimit

\* ------------------------------------------------------------ quota ledger
\* The rows SELECT ... WHERE user_id = u AND usage_date = d returns.
RowsOf(u, d) == {i \in 1..Len(usage) : usage[i].user = u /\ usage[i].date = d}

NoTask == <<0, 0>>

\* AnalysisService._instance before the first instance is made.
NoInstance == 0

\* self._executor before the first pool is made.
NoPool == 0

IdleReq == [pc |-> "idle", op |-> "none", user |-> Anonymous, code |-> 0, day |-> 0,
            row |-> NoRow, rd |-> 0, lim |-> 0, tid |-> NoTask, res |-> "none",
            kept |-> FALSE, billed |-> FALSE, before |-> 0, pool |-> NoPool, cnt |-> 0,
            member |-> FALSE, conf |-> NoConfig, ans |-> <<>>, src |-> "none",
            inst |-> NoInstance, raced |-> FALSE]

\* The call a request thread ends with result r: its locals are dropped.
Return(p, r) == [IdleReq EXCEPT !.op = req[p].op, !.user = req[p].user, !.res = r]

\* The first step of each call.
FirstPc(op) ==
    CASE op = "usage" -> "use_sel"
      [] op = "check" -> "chk"
      [] op = "charge" -> "inc_sel"
      [] op = "analyze" -> "edge"
      [] op = "instance" -> "gi_check"
      [] OTHER -> "sub_create"

\* A request thread enters a call: get_today_usage ("usage"),
\* UserService.check_analysis_limit ("check"), increment_analysis_count
\* ("charge"), the edge check followed by submit_analysis ("analyze"), or
\* submit_analysis alone ("submit").
Begin(p, op, u, c) ==
    /\ req[p].pc = "idle"
    /\ ncalls' = ncalls + 1
    /\ req' = [req EXCEPT ![p] =
                 [IdleReq EXCEPT !.op = op, !.user = u, !.code = c, !.pc = FirstPc(op)]]
    /\ UNCHANGED <<now, ledgerVars, taskVars, memberVars>>

\* scalar_one_or_none over the day's rows, read by thread p: the thread goes on to
\* `found` with the row, to `absent` with none, or to `failed` on
\* MultipleResultsFound.
SelectUsage(p, found, absent, failed) ==
    LET d == DateOf(now)
        rs == RowsOf(req[p].user, d)
    IN  IF Cardinality(rs) > 1
        THEN [req[p] EXCEPT !.pc = failed]
        ELSE IF rs = {}
        THEN [req[p] EXCEPT !.pc = absent, !.day = d, !.row = NoRow, !.rd = 0]
        ELSE LET i == CHOOSE i \in rs : TRUE
             IN  [req[p] EXCEPT !.pc = found, !.day = d, !.row = i, !.rd = usage[i].cnt]

\* A call ends with the exception its query raised.
Raise(p) ==
    /\ req[p].pc = "raise"
    /\ req' = [req EXCEPT ![p] = Return(p, "error")]
    /\ UNCHANGED <<now, ledgerVars, ncalls, taskVars, memberVars>>

\* UserService.get_today_usage, the select.
UsageSelect(p) ==
    /\ req[p].pc = "use_sel"
    /\ req' = [req EXCEPT ![p] = SelectUsage(p, "use_ret", "use_ins", "raise")]
    /\ UNCHANGED <<now, ledgerVars, ncalls, taskVars, memberVars>>

\* UserService.check_analysis_limit: the user's limit, then get_today_usage.
CheckSelect(p, conf) ==
    /\ req[p].pc = "chk"
    /\ req' = [req EXCEPT ![p] =
                 [SelectUsage(p, "use_ret", "use_ins", "raise")
                    EXCEPT !.lim = GetDailyAnalysisLimit(req[p].user, now, conf),
                           !.member = IsMembershipValid(req[p].user, now),
                           !.conf = conf]]
    /\ UNCHANGED <<now, ledgerVars, ncalls, taskVars, memberVars>>

\* UserService.get_today_usage, no row found: insert the day's row, count 0.
UsageInsert(p) ==
    /\ req[p].pc = "use_ins"
    /\ usage' = Append(usage, [user |-> req[p].user, date |-> req[p].day, cnt |-> 0])
    /\ req' = [req EXCEPT ![p].pc = "use_ret", ![p].row = Len(usage) + 1, ![p].rd = 0]
    /\ UNCHANGED <<now, total, charged, ncalls, taskVars, memberVars>>

\* The outcome of check_analysis_limit for a count and a limit.
CanContinue(cnt, limit) == IF limit = Unlimited THEN TRUE ELSE cnt < limit

\* get_today_usage returns.  check_analysis_limit compares the count it got with
\* the limit; the edge check lets the request go on to submit_analysis or
\* rejects it.
UsageReturn(p) ==
    /\ req[p].pc = "use_ret"
    /\ req' = [req EXCEPT ![p] =
                 IF req[p].op = "usage" THEN Return(p, "ok")
                 ELSE IF ~CanContinue(req[p].rd, req[p].lim) THEN Return(p, "rejected")
                 ELSE IF req[p].op = "check" THEN Return(p, "allowed")
                 ELSE [req[p] EXCEPT !.pc = "sub_create"]]
    /\ UNCHANGED <<now, ledgerVars, ncalls, taskVars, memberVars>>

\* AuthMiddleware.check_analysis_limit on the context authenticate built:
\* unlimited benefits pass at once, otherwise UserService.check_analysis_limit.
EdgeCheck(p) ==
    /\ req[p].pc = "edge"
    /\ req' = [req EXCEPT ![p].pc =
                 IF Cardinality(ValidMships(req[p].user, now)) > 1 THEN "raise"
                 ELSE IF BenefitsLimit(req[p].user, now) = Unlimited THEN "sub_create"
                 ELSE "chk"]
    /\ UNCHANGED <<now, ledgerVars, ncalls, taskVars, memberVars>>

\* Where a thread goes when increment_analysis_count is over: submit_analysis
\* goes on to the pool, a direct call returns analysis_count.
AfterCharge(p, r) ==
    IF req[p].op = "charge" THEN [Return(p, r) EXCEPT !.cnt = req[p].cnt]
    ELSE [req[p] EXCEPT !.pc = "sub_exec", !.billed = (r = "ok"), !.cnt = 0]

\* UserService.increment_analysis_count, the select of the day's row.  The
\* exception is re-raised; _increment_user_analysis_count logs and drops it.
IncSelect(p, dbError) ==
    /\ req[p].pc = "inc_sel"
    /\ req' = [req EXCEPT ![p] =
                 LET failed == IF req[p].op = "charge" THEN "raise" ELSE "sub_exec"
                 IN  IF dbError THEN [req[p] EXCEPT !.pc = failed]
                     ELSE SelectUsage(p, "inc_commit", "inc_commit", failed)]
    /\ UNCHANGED <<now, ledgerVars, ncalls, taskVars, memberVars>>

\* DailyUsage.increment_analysis on the loaded row: the value the UPDATE sets.
IncrementAnalysis(cnt) == cnt + 1

\* The daily_usage table after increment_analysis_count's commit: a new row with
\* count 1, or the row read with the count read plus one.
CommitUsage(p) ==
    IF req[p].row = NoRow
    THEN Append(usage, [user |-> req[p].user, date |-> req[p].day, cnt |-> 1])
    ELSE [usage EXCEPT ![req[p].row].cnt = IncrementAnalysis(req[p].rd)]

\* UserService.increment_analysis_count, the commit of the first step.
IncCommit(p) ==
    /\ req[p].pc = "inc_commit"
    /\ usage' = CommitUsage(p)
    /\ req' = [req EXCEPT ![p].pc = "tot_sel",
                          ![p].cnt = IF req[p].row = NoRow THEN 1
                                     ELSE IncrementAnalysis(req[p].rd)]
    /\ UNCHANGED <<now, total, charged, ncalls, taskVars, memberVars>>

\* A second step whose exception leaves increment_analysis_count.
TotalSelectStrict(p, dbError) ==
    /\ req[p].pc = "tot_sel"
    /\ req' = [req EXCEPT ![p] =
                 IF dbError THEN AfterCharge(p, "error")
                 ELSE [req[p] EXCEPT !.pc = "tot_commit", !.rd = total[req[p].user]]]
    /\ UNCHANGED <<now, ledgerVars, ncalls, taskVars, memberVars>>

\* UserService.increment_analysis_count, the second step: read the lifetime
\* counter.  An exception of this step is logged and dropped, and the call
\* returns the day's count.
TotalSelect(p, dbError) ==
    /\ req[p].pc = "tot_sel"
    /\ req' = [req EXCEPT ![p] =
                 IF dbError THEN AfterCharge(p, "ok")
                 ELSE [req[p] EXCEPT !.pc = "tot_commit", !.rd = total[req[p].user]]]
    /\ charged' = IF dbError THEN [charged EXCEPT ![req[p].user][req[p].day] = @ + 1]
                  ELSE charged
    /\ UNCHANGED <<now, usage, total, ncalls, taskVars, memberVars>>

\* UserService.increment_analysis_count, the second step: write the lifetime
\* counter and return.
TotalCommit(p) ==
    /\ req[p].pc = "tot_commit"
    /\ total' = [total EXCEPT ![req[p].user] = req[p].rd + 1]
    /\ charged' = [charged EXCEPT ![req[p].user][req[p].day] = @ + 1]
    /\ req' = [req EXCEPT ![p] = AfterCharge(p, "ok")]
    /\ UNCHANGED <<now, usage, ncalls, taskVars, memberVars>>

\* ------------------------------------------------------------------- tasks
TaskIds == Codes \X (0..MaxTime)

\* Python's None, as the value of a field never assigned.
None == "None"

\* `if x:` on an optional string or mapping.
Truthy(x) == x \notin {None, ""}

AbsentTask == [status |-> "none", user |-> Anonymous, result |-> None, error |-> None]

\* No row of analysis_tasks with this task id.
AbsentRow == [status |-> "none", user |-> Anonymous]

\* f"{code}_{datetime.now().strftime(...)}": the code and the instant.
TaskId(c, t) == <<c, t>>

\* The daily_usage counts of user u, all days together.
RECURSIVE SumCnt(_)
SumCnt(rows) ==
    IF rows = {} THEN 0
    ELSE LET i == CHOOSE i \in rows : TRUE IN usage[i].cnt + SumCnt(rows \ {i})

UsageOf(u) == SumCnt({i \in 1..Len(usage) : usage[i].user = u})

\* AnalysisService._persist_task_create: insert the row with status pending.
\* A failure of the backend, or of the unique index on task_id, is logged and
\* dropped.
PersistTaskCreate(tid, u, dbError) ==
    IF dbError \/ stored[tid].status # "none" THEN stored
    ELSE [stored EXCEPT ![tid] = [status |-> "pending", user |-> u]]

\* AnalysisService.submit_analysis: the task id, the cache entry, the durable
\* record.
SubmitCreate(p, dbError) ==
    /\ req[p].pc = "sub_create"
    /\ LET tid == TaskId(req[p].code, now)
       IN  /\ tasks' = [tasks EXCEPT ![tid] =
                          [status |-> "pending", user |-> req[p].user,
                           result |-> None, error |-> None]]
           /\ stored' = PersistTaskCreate(tid, req[p].user, dbError)
           /\ req' = [req EXCEPT ![p].tid = tid,
                        ![p].kept = stored'[tid] # stored[tid],
                        ![p].before = UsageOf(req[p].user),
                        ![p].pc = IF req[p].user # Anonymous THEN "inc_sel"
                                  ELSE "sub_exec"]
    /\ UNCHANGED <<now, ledgerVars, ncalls, queue, worker, executor, history, mails, runs, single, memberVars>>

\* The executor property, its test: the pool when there is one.
ExecutorCheck(p) ==
    /\ req[p].pc = "sub_exec"
    /\ req' = [req EXCEPT ![p] =
                 IF executor = NoPool THEN [req[p] EXCEPT !.pc = "sub_mkpool"]
                 ELSE [req[p] EXCEPT !.pc = "sub_dispatch", !.pool = executor]]
    /\ UNCHANGED <<now, ledgerVars, ncalls, taskVars, memberVars>>

\* The executor property, no pool seen: a new ThreadPoolExecutor is assigned.
ExecutorCreate(p) ==
    /\ req[p].pc = "sub_mkpool"
    /\ executor' = p
    /\ req' = [req EXCEPT ![p].pc = "sub_ret"]
    /\ UNCHANGED <<now, ledgerVars, ncalls, tasks, stored, queue, worker, history, mails, runs, single, memberVars>>

\* The executor property, `return self._executor` after the assignment.
ExecutorReturn(p) ==
    /\ req[p].pc = "sub_ret"
    /\ req' = [req EXCEPT ![p].pc = "sub_dispatch", ![p].pool = executor]
    /\ UNCHANGED <<now, ledgerVars, ncalls, taskVars, memberVars>>

\* executor.submit of a pool that takes work only when a thread is free.
SubmitDispatchWhenFree(p) ==
    /\ req[p].pc = "sub_dispatch"
    /\ \E w \in Workers : worker[req[p].pool][w].pc = "idle"
    /\ queue' = [queue EXCEPT ![req[p].pool] =
                    Append(@, [tid |-> req[p].tid, user |-> req[p].user, n |-> ncalls])]
    /\ req' = [req EXCEPT ![p] = Return(p, "ok")]
    /\ UNCHANGED <<now, ledgerVars, ncalls, tasks, stored, worker, executor, history, mails, runs, single, memberVars>>

\* AnalysisService.submit_analysis: executor.submit, and the return.  The work
\* item carries n, the number of calls begun when it was dispatched.
SubmitDispatch(p) ==
    /\ req[p].pc = "sub_dispatch"
    /\ queue' = [queue EXCEPT ![req[p].pool] =
                    Append(@, [tid |-> req[p].tid, user |-> req[p].user, n |-> ncalls])]
    /\ req' = [req EXCEPT ![p] = Return(p, "ok")]
    /\ UNCHANGED <<now, ledgerVars, ncalls, tasks, stored, worker, executor, history, mails, runs, single, memberVars>>

IdleWorker == [pc |-> "idle", tid |-> NoTask, user |-> Anonymous, out |-> "none", n |-> 0]

\* A thread of pool k takes the pool's oldest work item.
WorkerTake(k, w) ==
    /\ worker[k][w].pc = "idle"
    /\ queue[k] # <<>>
    /\ worker' = [worker EXCEPT ![k][w] =
                    [IdleWorker EXCEPT !.pc = "start", !.tid = Head(queue[k]).tid,
                                       !.user = Head(queue[k]).user,
                                       !.n = Head(queue[k]).n]]
    /\ queue' = [queue EXCEPT ![k] = Tail(@)]
    /\ UNCHANGED <<now, ledgerVars, reqVars, tasks, stored, executor, history, mails, runs, single, memberVars>>

\* AnalysisService._update_task_status on the cache: the status, and the result
\* and the error when they are truthy.
UpdateTaskStatus(tid, status, result, error) ==
    IF tasks[tid].status = "none" THEN tasks
    ELSE [tasks EXCEPT ![tid].status = status,
                       ![tid].result = IF Truthy(result) THEN result ELSE @,
                       ![tid].error = IF Truthy(error) THEN error ELSE @]

\* AnalysisService._persist_task_update: the row's status, when there is a row.
\* A failure of the backend is logged and dropped.
PersistTaskUpdate(tid, status, dbError) ==
    IF dbError \/ stored[tid].status = "none" THEN stored
    ELSE [stored EXCEPT ![tid].status = status]

\* AnalysisService._run_analysis, its first statement.
WorkerStart(k, w, dbError) ==
    /\ worker[k][w].pc = "start"
    /\ tasks' = UpdateTaskStatus(worker[k][w].tid, "running", None, None)
    /\ stored' = PersistTaskUpdate(worker[k][w].tid, "running", dbError)
    /\ worker' = [worker EXCEPT ![k][w].pc = "work"]
    /\ UNCHANGED <<now, ledgerVars, reqVars, queue, executor, history, mails, runs, single, memberVars>>

\* What the unit of work does: a result, no result, or an exception with a
\* message (which may be empty).
Outcomes == {"result", "empty", "raise", "raise_blank"}

\* str(e) of the exception the unit of work raised.
Message(out) == IF out = "raise" THEN "boom" ELSE ""

\* The unit of work, process_single_stock, returns or raises.
WorkerRun(k, w, out) ==
    /\ worker[k][w].pc = "work"
    /\ worker' = [worker EXCEPT ![k][w].pc = "done", ![k][w].out = out]
    /\ runs' = [runs EXCEPT ![worker[k][w].tid] = @ + 1]
    /\ UNCHANGED <<now, ledgerVars, reqVars, tasks, stored, queue, executor, history, mails, single, memberVars>>

\* The status _run_analysis reports for an outcome.
OutcomeStatus(out) == IF out = "result" THEN "completed" ELSE "failed"

\* A _run_analysis that reports nothing when the unit of work has no result.
FinishStatusSilent(tid, out) ==
    IF out = "empty" THEN tasks
    ELSE IF out = "result" THEN UpdateTaskStatus(tid, "completed", "data", None)
    ELSE UpdateTaskStatus(tid, "failed", None, Message(out))

\* AnalysisService._run_analysis, after the unit of work: the cache.
FinishStatus(tid, out) ==
    CASE out = "result" -> UpdateTaskStatus(tid, "completed", "data", None)
      [] out = "empty" -> UpdateTaskStatus(tid, "failed", None, "empty result")
      [] OTHER -> UpdateTaskStatus(tid, "failed", None, Message(out))

\* Where _run_analysis goes after the status update: the two side effects of
\* the success path for a task with a user, the return otherwise.
AfterFinish(wk) ==
    IF wk.out = "result" /\ wk.user # Anonymous THEN [wk EXCEPT !.pc = "save"]
    ELSE IdleWorker

WorkerFinish(k, w, dbError) ==
    /\ worker[k][w].pc = "done"
    /\ tasks' = FinishStatus(worker[k][w].tid, worker[k][w].out)
    /\ stored' = PersistTaskUpdate(worker[k][w].tid, OutcomeStatus(worker[k][w].out), dbError)
    /\ worker' = [worker EXCEPT ![k][w] = AfterFinish(worker[k][w])]
    /\ UNCHANGED <<now, ledgerVars, reqVars, queue, executor, history, mails, runs, single, memberVars>>

\* AnalysisService._save_analysis_history: one history row with the task id,
\* or nothing when the save raises.
SaveHistory(k, w, dbError) ==
    /\ worker[k][w].pc = "save"
    /\ history' = IF dbError THEN history
                  ELSE [history EXCEPT ![worker[k][w].tid] = @ + 1]
    /\ worker' = [worker EXCEPT ![k][w].pc = "mail"]
    /\ UNCHANGED <<now, ledgerVars, reqVars, tasks, stored, queue, executor, mails, runs, single, memberVars>>

\* AnalysisService._send_report_to_user_email: one mail, or none when the user
\* has no address, the mailer is off or the send fails.  _run_analysis returns.
SendReport(k, w, sent) ==
    /\ worker[k][w].pc = "mail"
    /\ mails' = IF sent THEN [mails EXCEPT ![worker[k][w].tid] = @ + 1] ELSE mails
    /\ worker' = [worker EXCEPT ![k][w] = IdleWorker]
    /\ UNCHANGED <<now, ledgerVars, reqVars, tasks, stored, queue, executor, history, runs, single, memberVars>>

\* ------------------------------------------------- orders and memberships
\* MembershipPlan.duration_days of the catalogue's plans.
PlanDays(pl) == pl

\* MembershipPlan.name of the catalogue's plans, as level_map translates it.
PlanLevel(pl) == IF plans[pl].name = "weekly card" THEN "weekly" ELSE "monthly"

\* users.referrer_id: user 1 was invited by user 2, nobody else was invited.
Referrer(u) == IF u = 1 THEN 2 ELSE 0

IdleTx == [pc |-> "idle", op |-> "none", user |-> 0, plan |-> 0, order |-> 0,
           tchk |-> NoTime, tact |-> NoTime, existing |-> NoRow, expire |-> NoTime,
           lvl0 |-> "", exp0 |-> NoTime, todo |-> <<>>, marked |-> {}, resets |-> {},
           count |-> 0, bal |-> 0, res |-> "none", why |-> ""]

\* A call returns: the session is closed and the locals are dropped.
TxReturn(p, r, w) == [IdleTx EXCEPT !.op = txn[p].op, !.res = r, !.why = w]

\* The catalogue changes: a plan is taken off sale ("off"), put on sale
\* ("on"), or its row is deleted ("gone").
PlanAdmin(pl, to) ==
    /\ plans[pl].state \notin {to, "gone"}
    /\ plans' = [plans EXCEPT ![pl].state = to]
    /\ UNCHANGED <<now, ledgerVars, reqVars, taskVars, orders, mships, snap, hooks, txn>>

\* The catalogue changes: a plan gets another price and another name.
PlanEdit(pl, price, name) ==
    /\ plans[pl].state # "gone"
    /\ plans' = [plans EXCEPT ![pl].price = price, ![pl].name = name]
    /\ plans' # plans
    /\ UNCHANGED <<now, ledgerVars, reqVars, taskVars, orders, mships, snap, hooks, txn>>

\* max(0, x)
Max0(x) == IF x > 0 THEN x ELSE 0

\* An order row whose pay_amount is the price less the discount, unclamped.
NewOrderUnclamped(u, pl, discount) ==
    [user |-> u, plan |-> pl, status |-> "pending", expire |-> now + OrderTTL,
     method |-> "wechat", name |-> plans[pl].name, amount |-> plans[pl].price,
     discount |-> discount, pay |-> plans[pl].price - discount]

\* The Order row create_order builds for plan pl at instant now.
NewOrder(u, pl, discount) ==
    [user |-> u, plan |-> pl, status |-> "pending", expire |-> now + OrderTTL,
     method |-> "wechat", name |-> plans[pl].name, amount |-> plans[pl].price,
     discount |-> discount, pay |-> Max0(plans[pl].price - discount)]

\* MembershipService.create_order, a call that succeeds, with no discount.
CreateOrder(u, pl) ==
    /\ plans[pl].state = "on"
    /\ orders' = Append(orders, NewOrder(u, pl, 0))
    /\ UNCHANGED <<now, ledgerVars, reqVars, taskVars, plans, mships, snap, hooks, txn>>

\* MembershipService.create_order as process p calls it, with its result: the
\* order is inserted for a plan on sale, and the call fails without one.
CreateOrderCall(p, u, pl, discount) ==
    /\ txn[p].pc = "idle"
    /\ IF plans[pl].state = "on"
       THEN /\ orders' = Append(orders, NewOrder(u, pl, discount))
            /\ txn' = [txn EXCEPT ![p] = [IdleTx EXCEPT !.op = "create", !.user = u,
                                             !.plan = pl, !.order = Len(orders) + 1,
                                             !.res = "ok", !.why = "created"]]
       ELSE /\ orders' = orders
            /\ txn' = [txn EXCEPT ![p] = [IdleTx EXCEPT !.op = "create", !.user = u,
                                             !.plan = pl, !.res = "fail",
                                             !.why = "no_plan"]]
    /\ UNCHANGED <<now, ledgerVars, reqVars, taskVars, plans, mships, snap, hooks>>

\* The payment gateway gives up on a pending order.
OrderClosed(o, s) ==
    /\ o \in 1..Len(orders)
    /\ orders[o].status = "pending"
    /\ orders' = [orders EXCEPT ![o].status = s]
    /\ UNCHANGED <<now, ledgerVars, reqVars, taskVars, plans, mships, snap, hooks, txn>>

\* A membership call starts: process_payment ("settle") for an order number,
\* manual_activate ("manual"), check_expired_memberships ("sweep"), or the
\* cancel-order handler ("cancel").
BeginTx(p, op, o, u, pl) ==
    /\ txn[p].pc = "idle"
    /\ txn' = [txn EXCEPT ![p] =
                 [IdleTx EXCEPT !.op = op, !.order = o, !.user = u, !.plan = pl,
                    !.pc = CASE op = "settle" -> "pp_sel"
                             [] op = "manual" -> "ma_act"
                             [] op = "sweep" -> "sw_sel"
                             [] OTHER -> "ca_chk"]]
    /\ UNCHANGED <<now, ledgerVars, reqVars, taskVars, plans, orders, mships, snap, hooks>>

\* Order.can_pay without the deadline: any pending order can be paid.
CanPayAnytime(ord, t) == ord.status = "pending"

\* Order.can_pay at instant t
CanPay(ord, t) ==
    IF ord.status # "pending" THEN FALSE
    ELSE IF ord.expire # NoTime /\ t > ord.expire THEN FALSE
    ELSE TRUE

\* process_payment without the early return for an order that is paid already.
SettleSelectNoReplay(p) ==
    LET o == txn[p].order
    IN  IF o \notin 1..Len(orders) THEN TxReturn(p, "fail", "unknown")
        ELSE IF ~CanPay(orders[o], now) THEN TxReturn(p, "fail", "not_payable")
        ELSE [txn[p] EXCEPT !.pc = "pp_act", !.tchk = now,
                            !.user = orders[o].user, !.plan = orders[o].plan]

\* MembershipService.process_payment: the order is looked up and checked, and
\* mark_paid changes it in the session.
SettleSelect(p) ==
    LET o == txn[p].order
    IN  IF o \notin 1..Len(orders) THEN TxReturn(p, "fail", "unknown")
        ELSE IF orders[o].status = "paid" THEN TxReturn(p, "ok", "already_paid")
        ELSE IF ~CanPay(orders[o], now) THEN TxReturn(p, "fail", "not_payable")
        ELSE [txn[p] EXCEPT !.pc = "pp_act", !.tchk = now,
                            !.user = orders[o].user, !.plan = orders[o].plan]

PPSelect(p) ==
    /\ txn[p].pc = "pp_sel"
    /\ txn' = [txn EXCEPT ![p] = SettleSelect(p)]
    /\ UNCHANGED <<now, ledgerVars, reqVars, taskVars, plans, orders, mships, snap, hooks>>

\* _activate_membership counting every period from now: a membership that is
\* still running is moved to now + days.
ActivateFromNow(p, dbError, onOk, onFail) ==
    LET u == txn[p].user
        valid == ValidMships(u, now)
        days == DaysDelta(PlanDays(txn[p].plan))
    IN  IF dbError \/ Cardinality(valid) > 1
        THEN [txn[p] EXCEPT !.pc = onFail]
        ELSE [txn[p] EXCEPT !.pc = onOk, !.tact = now,
                            !.existing = IF valid # {} THEN CHOOSE i \in valid : TRUE
                                         ELSE NoRow,
                            !.expire = now + days,
                            !.lvl0 = snap[u].level, !.exp0 = snap[u].expire]

\* MembershipService._activate_membership in the session of call p, at instant
\* now: the membership row to extend or the row to create, and the snapshot.  A
\* query that raises (dbError, or several valid rows under scalar_one_or_none)
\* makes it return failure.
ActivateMembership(p, dbError, onOk, onFail) ==
    LET u == txn[p].user
        valid == ValidMships(u, now)
        days == DaysDelta(PlanDays(txn[p].plan))
    IN  IF dbError \/ Cardinality(valid) > 1
        THEN [txn[p] EXCEPT !.pc = onFail]
        ELSE IF valid # {}
        THEN LET i == CHOOSE i \in valid : TRUE
             IN  [txn[p] EXCEPT !.pc = onOk, !.tact = now, !.existing = i,
                                !.expire = mships[i].expire + days,
                                !.lvl0 = snap[u].level, !.exp0 = snap[u].expire]
        ELSE [txn[p] EXCEPT !.pc = onOk, !.tact = now, !.existing = NoRow,
                            !.expire = now + days,
                            !.lvl0 = snap[u].level, !.exp0 = snap[u].expire]

\* A session that ends without a commit writes nothing: what the context
\* manager of DatabaseManager.get_session does when process_payment returns
\* from inside it.
Uncommitted(p) == UNCHANGED <<orders, mships, snap>>

\* MembershipService.process_payment: the plan is looked up and the membership
\* activated in the session; without the plan the call returns at once.
PPActivate(p, dbError) ==
    /\ txn[p].pc = "pp_act"
    /\ txn' = [txn EXCEPT ![p] =
                 IF plans[txn[p].plan].state = "gone"
                 THEN TxReturn(p, "fail", "no_plan")
                 ELSE ActivateMembership(p, dbError, "pp_commit", "pp_rollback")]
    /\ Uncommitted(p)
    /\ UNCHANGED <<now, ledgerVars, reqVars, taskVars, plans, hooks>>

\* The commit with the new row's order_id left out.
CommitMshipsUnlinked(p, o) ==
    IF txn[p].existing # NoRow
    THEN [mships EXCEPT ![txn[p].existing].expire = txn[p].expire]
    ELSE Append(mships, [user |-> txn[p].user, plan |-> txn[p].plan, order |-> NoRow,
                         start |-> txn[p].tact, expire |-> txn[p].expire,
                         status |-> "active"])

\* The user_memberships table after the session of call p commits: the row
\* read gets the new expire_at, or a row is inserted for order o.
CommitMships(p, o) ==
    IF txn[p].existing # NoRow
    THEN [mships EXCEPT ![txn[p].existing].expire = txn[p].expire]
    ELSE Append(mships, [user |-> txn[p].user, plan |-> txn[p].plan, order |-> o,
                         start |-> txn[p].tact, expire |-> txn[p].expire,
                         status |-> "active"])

\* The users table after the session of call p commits: the columns the call
\* changed on the user it loaded.
CommitSnap(p) ==
    LET u == txn[p].user
        lvl == PlanLevel(txn[p].plan)
    IN  [snap EXCEPT ![u].level = IF lvl # txn[p].lvl0 THEN lvl ELSE @,
                     ![u].expire = IF txn[p].expire # txn[p].exp0 THEN txn[p].expire ELSE @]

\* Order.mark_paid, as the session of call p writes it.
MarkPaid(p, ord) == [ord EXCEPT !.status = "paid", !.method = "wechat"]

\* Where process_payment goes after its commit: to the reward hook when the
\* buyer has a referrer, or to its return.
AfterSettleCommit(p) ==
    IF Referrer(txn[p].user) # 0 THEN [txn[p] EXCEPT !.pc = "pp_hook"]
    ELSE TxReturn(p, "ok", "settled")

\* MembershipService.process_payment: session.commit().
PPCommit(p) ==
    /\ txn[p].pc = "pp_commit"
    /\ orders' = [orders EXCEPT ![txn[p].order] = MarkPaid(p, @)]
    /\ mships' = CommitMships(p, txn[p].order)
    /\ snap' = CommitSnap(p)
    /\ txn' = [txn EXCEPT ![p] = AfterSettleCommit(p)]
    /\ UNCHANGED <<now, ledgerVars, reqVars, taskVars, plans, hooks>>

\* A failure branch that commits the session: the order mark_paid changed is
\* written although the activation failed.
RollbackKeepsOrder(p) ==
    /\ orders' = IF txn[p].order \in 1..Len(orders)
                  THEN [orders EXCEPT ![txn[p].order].status = "paid"]
                  ELSE orders
    /\ UNCHANGED <<mships, snap>>

\* What the failure branch of process_payment and manual_activate does with the
\* session: session.rollback().
Rollback(p) == UNCHANGED <<orders, mships, snap>>

\* MembershipService.process_payment and manual_activate: activation failed.
TxRollback(p) ==
    /\ txn[p].pc \in {"pp_rollback", "ma_rollback"}
    /\ Rollback(p)
    /\ txn' = [txn EXCEPT ![p] = TxReturn(p, "fail", "activation")]
    /\ UNCHANGED <<now, ledgerVars, reqVars, taskVars, plans, hooks>>

\* MembershipService.process_payment: grant_subscription_reward after the
\* commit, up to the select of the referral record and the test of its flag.
\* Nothing catches what the hook raises: it leaves process_payment.
PPHook(p, hookError) ==
    /\ txn[p].pc = "pp_hook"
    /\ hooks' = IF hookError THEN hooks ELSE [hooks EXCEPT ![txn[p].user].calls = @ + 1]
    /\ txn' = [txn EXCEPT ![p] =
                 IF hookError THEN TxReturn(p, "error", "hook_raised")
                 ELSE IF hooks[txn[p].user].given THEN TxReturn(p, "ok", "settled")
                 ELSE [txn[p] EXCEPT !.pc = "pp_reward", !.bal = hooks[txn[p].user].bonus]]
    /\ UNCHANGED <<now, ledgerVars, reqVars, taskVars, plans, orders, mships, snap>>

\* ReferralService.grant_subscription_reward, from the referrer's row to the
\* commit: the balance read plus the reward and the record's flag are written.
\* The balance read is the one at the record's select (a session that reads a
\* snapshot) or the one at this instant (fresh: a session whose selects see
\* what was committed meanwhile).
PPReward(p, fresh) ==
    /\ txn[p].pc = "pp_reward"
    /\ hooks' = [hooks EXCEPT ![txn[p].user].given = TRUE,
                               ![txn[p].user].bonus = (IF fresh THEN @ ELSE txn[p].bal) + 1]
    /\ txn' = [txn EXCEPT ![p] = TxReturn(p, "ok", "settled")]
    /\ UNCHANGED <<now, ledgerVars, reqVars, taskVars, plans, orders, mships, snap>>

\* A manual_activate that always opens a new period at now.
MAActivateFromNow(p, dbError) ==
    /\ txn[p].pc = "ma_act"
    /\ txn' = [txn EXCEPT ![p] =
                 IF plans[txn[p].plan].state = "gone"
                 THEN TxReturn(p, "fail", "no_plan")
                 ELSE ActivateFromNow(p, dbError, "ma_commit", "ma_rollback")]
    /\ UNCHANGED <<now, ledgerVars, reqVars, taskVars, plans, orders, mships, snap, hooks>>

\* MembershipService.manual_activate: the plan is looked up, the internal order
\* added to the session, the membership activated in the session.
MAActivate(p, dbError) ==
    /\ txn[p].pc = "ma_act"
    /\ txn' = [txn EXCEPT ![p] =
                 IF plans[txn[p].plan].state = "gone"
                 THEN TxReturn(p, "fail", "no_plan")
                 ELSE ActivateMembership(p, dbError, "ma_commit", "ma_rollback")]
    /\ UNCHANGED <<now, ledgerVars, reqVars, taskVars, plans, orders, mships, snap, hooks>>

\* The internal order manual_activate creates: no amount, already paid.
ManualOrder(p) ==
    [user |-> txn[p].user, plan |-> txn[p].plan, status |-> "paid",
     expire |-> NoTime, method |-> "manual", name |-> plans[txn[p].plan].name,
     amount |-> 0, discount |-> plans[txn[p].plan].price, pay |-> 0]

\* MembershipService.manual_activate: session.commit().
MACommit(p) ==
    /\ txn[p].pc = "ma_commit"
    /\ orders' = Append(orders, ManualOrder(p))
    /\ mships' = CommitMships(p, Len(orders) + 1)
    /\ snap' = CommitSnap(p)
    /\ txn' = [txn EXCEPT ![p] = TxReturn(p, "ok", "activated")]
    /\ UNCHANGED <<now, ledgerVars, reqVars, taskVars, plans, hooks>>

\* The sweep's select taking the rows that expire at instant t as expired.
ExpiredRowsUpTo(t) ==
    SelectSeq([i \in 1..Len(mships) |-> i],
              LAMBDA i : mships[i].status = "active" /\ mships[i].expire <= t)

\* The rows check_expired_memberships selects at instant t, in table order.
ExpiredRows(t) ==
    SelectSeq([i \in 1..Len(mships) |-> i],
              LAMBDA i : mships[i].status = "active" /\ mships[i].expire < t)

\* MembershipService.check_expired_memberships: the select of the expired rows.
SweepSelect(p) ==
    /\ txn[p].pc = "sw_sel"
    /\ txn' = [txn EXCEPT ![p].pc = "sw_row", ![p].tchk = now,
                           ![p].todo = ExpiredRows(now)]
    /\ UNCHANGED <<now, ledgerVars, reqVars, taskVars, plans, orders, mships, snap, hooks>>

\* The other valid memberships of the owner of row i, at instant t.
OtherValid(i, t) == ValidMships(mships[i].user, t) \ {i}

\* MembershipService.check_expired_memberships: one turn of the loop.  A query
\* that raises (dbError, or several other valid rows under scalar_one_or_none)
\* ends the call with the exception, before the commit.
SweepRow(p, dbError) ==
    /\ txn[p].pc = "sw_row"
    /\ txn[p].todo # <<>>
    /\ LET i == Head(txn[p].todo)
           u == mships[i].user
           others == OtherValid(i, now)
       IN  txn' = [txn EXCEPT ![p] =
                     IF dbError \/ Cardinality(others) > 1
                     THEN TxReturn(p, "error", "sweep_raised")
                     ELSE [txn[p] EXCEPT
                             !.todo = Tail(@),
                             !.marked = @ \cup {i},
                             !.resets = IF others = {} /\ snap[u] # [level |-> "free", expire |-> NoTime]
                                        THEN @ \cup {u} ELSE @]]
    /\ UNCHANGED <<now, ledgerVars, reqVars, taskVars, plans, orders, mships, snap, hooks>>

\* MembershipService.check_expired_memberships: session.commit() and the count.
SweepCommit(p) ==
    /\ txn[p].pc = "sw_row"
    /\ txn[p].todo = <<>>
    /\ mships' = [i \in 1..Len(mships) |->
                    IF i \in txn[p].marked THEN [mships[i] EXCEPT !.status = "expired"]
                    ELSE mships[i]]
    /\ snap' = [u \in Users |->
                  IF u \in txn[p].resets THEN [level |-> "free", expire |-> NoTime]
                  ELSE snap[u]]
    /\ txn' = [txn EXCEPT ![p] =
                 [TxReturn(p, "ok", "swept") EXCEPT !.count = Cardinality(txn[p].marked)]]
    /\ UNCHANGED <<now, ledgerVars, reqVars, taskVars, plans, orders, hooks>>

\* AuthApiHandler.handle_cancel_order: the order is looked up and must be pending.
CancelCheck(p) ==
    /\ txn[p].pc = "ca_chk"
    /\ txn' = [txn EXCEPT ![p] =
                 IF txn[p].order \notin 1..Len(orders) THEN TxReturn(p, "fail", "unknown")
                 ELSE IF orders[txn[p].order].status # "pending"
                 THEN TxReturn(p, "fail", "not_pending")
                 ELSE [txn[p] EXCEPT !.pc = "ca_commit"]]
    /\ UNCHANGED <<now, ledgerVars, reqVars, taskVars, plans, orders, mships, snap, hooks>>

\* AuthApiHandler.handle_cancel_order: a second session sets the status.
CancelCommit(p) ==
    /\ txn[p].pc = "ca_commit"
    /\ orders' = [orders EXCEPT ![txn[p].order].status = "cancelled"]
    /\ txn' = [txn EXCEPT ![p] = TxReturn(p, "ok", "cancelled")]
    /\ UNCHANGED <<now, ledgerVars, reqVars, taskVars, plans, mships, snap, hooks>>

\* ---------------------------------------------------------- initial states
InitLedger ==
    /\ usage = <<>>
    /\ total = [u \in Users |-> 0]
    /\ charged = [u \in Users |-> [d \in Days |-> 0]]

InitReq ==
    /\ req = [p \in ReqIds |-> IdleReq]
    /\ ncalls = 0

InitTasks ==
    /\ tasks = [t \in TaskIds |-> AbsentTask]
    /\ queue = [k \in Pools |-> <<>>]
    /\ worker = [k \in Pools |-> [w \in Workers |-> IdleWorker]]
    /\ executor = NoPool
    /\ stored = [t \in TaskIds |-> AbsentRow]
    /\ history = [t \in TaskIds |-> 0]
    /\ mails = [t \in TaskIds |-> 0]
    /\ runs = [t \in TaskIds |-> 0]
    /\ single = [instance |-> NoInstance, lock |-> 0, made |-> 0]

\* No orders and no memberships yet; every user is on the free tier.
InitMember ==
    /\ plans = [pl \in PlanIds |->
                  [state |-> "on", price |-> pl,
                   name |-> IF pl = 1 THEN "weekly card" ELSE "monthly card"]]
    /\ orders = <<>>
    /\ mships = <<>>
    /\ snap = [u \in Users |-> [level |-> "free", expire |-> NoTime]]
    /\ hooks = [u \in Users |-> [calls |-> 0, given |-> FALSE, bonus |-> 0]]
    /\ txn = [p \in TxIds |-> IdleTx]

Init == now = 0 /\ InitLedger /\ InitReq /\ InitTasks /\ InitMember

\* The steps of a pool worker.
WorkerStep(k, w) ==
    \/ WorkerTake(k, w)
    \/ WorkerStart(k, w, FALSE)
    \/ \E out \in Outcomes : WorkerRun(k, w, out)
    \/ WorkerFinish(k, w, FALSE)
    \/ \E dbError \in BOOLEAN : SaveHistory(k, w, dbError)
    \/ \E sent \in BOOLEAN : SendReport(k, w, sent)

\* The steps of submit_analysis.
SubmitStep(p) ==
    \/ \E dbError \in BOOLEAN : SubmitCreate(p, dbError)
    \/ \E dbError \in BOOLEAN : IncSelect(p, dbError)
    \/ IncCommit(p) \/ TotalCommit(p)
    \/ \E dbError \in BOOLEAN : TotalSelect(p, dbError)
    \/ ExecutorCheck(p) \/ ExecutorCreate(p) \/ ExecutorReturn(p)
    \/ SubmitDispatch(p)

\* N concurrent chargeOne calls.
NextCharge ==
    \/ ncalls < MaxCalls /\ \E p \in ReqIds, u \in Users : Begin(p, "charge", u, 0)
    \/ \E p \in ReqIds :
          \/ IncCommit(p) \/ TotalCommit(p)
          \/ \E dbError \in BOOLEAN : TotalSelect(p, dbError)
          \/ \E dbError \in BOOLEAN : IncSelect(p, dbError)
    \/ \E p \in ReqIds : Raise(p)

SpecCharge == Init /\ [][NextCharge]_vars

\* The ledger's three calls, in any interleaving, over several days.
NextLedger ==
    \/ now < MaxTime /\ Tick
    \/ ncalls < MaxCalls /\ \E p \in ReqIds, u \in Users, op \in {"usage", "check", "charge"} : Begin(p, op, u, 0)
    \/ \E p \in ReqIds :
          \/ Raise(p) \/ UsageSelect(p) \/ CheckSelect(p, NoConfig) \/ UsageInsert(p)
          \/ UsageReturn(p) \/ IncCommit(p)
          \/ \E dbError \in BOOLEAN : TotalSelect(p, dbError)
          \/ TotalCommit(p)
          \/ \E dbError \in BOOLEAN : IncSelect(p, dbError)

SpecLedger == Init /\ [][NextLedger]_vars

\* Requests that pass the edge check before they submit.
NextQuota ==
    \/ ncalls < MaxCalls /\ \E p \in ReqIds, u \in Users, c \in Codes : Begin(p, "analyze", u, c)
    \/ \E p \in ReqIds :
          \/ Raise(p) \/ CheckSelect(p, NoConfig) \/ UsageInsert(p)
          \/ UsageReturn(p) \/ EdgeCheck(p) \/ SubmitStep(p)

SpecQuota == Init /\ [][NextQuota]_vars

\* The limit check and the charge of user 1 in any interleaving, while the
\* user is given a membership that runs out and the free limit is configured.
NextCheck ==
    \/ now < MaxTime /\ Tick
    \/ Len(orders) < MaxNewOrders /\ BeginTx(1, "manual", 0, 1, 1)
    \/ MAActivate(1, FALSE) \/ MACommit(1)
    \/ ncalls < MaxCalls /\ \E p \in ReqIds, op \in {"check", "charge"} : Begin(p, op, 1, 0)
    \/ \E p \in ReqIds :
          \/ Raise(p) \/ UsageInsert(p) \/ UsageReturn(p)
          \/ IncCommit(p) \/ TotalSelect(p, FALSE) \/ TotalCommit(p)
          \/ IncSelect(p, FALSE)
          \/ \E conf \in ConfigRows : CheckSelect(p, conf)

SpecCheck == Init /\ [][NextCheck]_vars

\* A user's submissions one after another, and the workers of the pool.
NextTask ==
    \/ now < MaxTaskTime /\ Tick
    \/ ncalls < MaxSubmits /\ \E c \in Codes : Begin(1, "submit", 1, c)
    \/ SubmitStep(1)
    \/ \E k \in Pools, w \in Workers : WorkerStep(k, w)

SpecTask == Init /\ [][NextTask]_vars

\* The steps of an anonymous submit_analysis.
PoolSubmit(p) ==
    \/ \E dbError \in BOOLEAN : SubmitCreate(p, dbError)
    \/ ExecutorCheck(p) \/ ExecutorCreate(p) \/ ExecutorReturn(p)
    \/ SubmitDispatch(p)

\* The steps of a worker on the work item of an anonymous submit.
PoolWork(k, w) ==
    \/ WorkerTake(k, w) \/ WorkerStart(k, w, FALSE) \/ WorkerFinish(k, w, FALSE)
    \/ \E out \in Outcomes : WorkerRun(k, w, out)

\* Concurrent anonymous submissions, the first of which make the pool.
NextPool ==
    \/ ncalls < MaxSubmits /\ \E p \in ReqIds, c \in Codes : Begin(p, "submit", Anonymous, c)
    \/ \E p \in ReqIds : PoolSubmit(p)
    \/ \E k \in Pools, w \in Workers : PoolWork(k, w)

SpecPool == Init /\ [][NextPool]_vars

\* The request threads are scheduled fairly; of the workers nothing is assumed,
\* a unit of work may never return.
SpecPoolSubmit == SpecPool /\ \A p \in ReqIds : WF_vars(PoolSubmit(p))

\* Anonymous submissions one after another, as the clock runs, and the workers.
NextRun ==
    \/ now < MaxTaskTime /\ Tick
    \/ ncalls < MaxSubmits /\ \E c \in Codes : Begin(1, "submit", Anonymous, c)
    \/ PoolSubmit(1)
    \/ \E k \in Pools, w \in Workers : PoolWork(k, w)

\* The request thread and the workers are scheduled fairly and every unit of
\* work returns or raises.
SpecRunFair ==
    /\ Init /\ [][NextRun]_vars
    /\ WF_vars(PoolSubmit(1))
    /\ \A k \in Pools, w \in Workers : WF_vars(PoolWork(k, w))

\* The steps of a membership call.
TxStep(p) ==
    \/ PPSelect(p)
    \/ \E dbError \in BOOLEAN : PPActivate(p, dbError)
    \/ PPCommit(p)
    \/ TxRollback(p)
    \/ \E hookError \in BOOLEAN : PPHook(p, hookError)
    \/ \E fresh \in BOOLEAN : PPReward(p, fresh)
    \/ \E dbError \in BOOLEAN : MAActivate(p, dbError)
    \/ MACommit(p)
    \/ SweepSelect(p)
    \/ \E dbError \in BOOLEAN : SweepRow(p, dbError)
    \/ SweepCommit(p)
    \/ CancelCheck(p)
    \/ CancelCommit(p)

\* What happens around the calls: the catalogue changes, orders are created,
\* the gateway closes orders.
MemberEnv ==
    \/ \E pl \in PlanIds, to \in {"on", "off", "gone"} : PlanAdmin(pl, to)
    \/ Len(orders) < MaxOrders /\ \E u \in Buyers, pl \in PlanIds : CreateOrder(u, pl)
    \/ \E o \in 1..MaxOrders, s \in {"failed", "closed"} : OrderClosed(o, s)

TxBegin(p) ==
    \/ \E o \in 1..MaxOrders : BeginTx(p, "settle", o, 0, 0)
    \/ Len(orders) < MaxOrders /\ \E u \in Buyers, pl \in PlanIds : BeginTx(p, "manual", 0, u, pl)
    \/ BeginTx(p, "sweep", 0, 0, 0)
    \/ \E o \in 1..MaxOrders : BeginTx(p, "cancel", o, 0, 0)

NoCall == \A p \in TxIds : txn[p].pc = "idle"

\* The membership calls made one at a time, while the clock runs; the world
\* around them changes between two calls.
NextMember ==
    \/ now < MaxTime /\ Tick
    \/ NoCall /\ MemberEnv
    \/ NoCall /\ TxBegin(1)
    \/ TxStep(1)

SpecMember == Init /\ [][NextMember]_vars

\* Settlements, manual activations and sweeps in any interleaving, one call
\* for each process.
NextMemberConc ==
    \/ now < MaxTime /\ Tick
    \/ Len(orders) < MaxOrders /\ \E u \in Buyers, pl \in PlanIds : CreateOrder(u, pl)
    \/ \E p \in TxIds : txn[p].res = "none" /\
          \/ \E o \in 1..MaxOrders : BeginTx(p, "settle", o, 0, 0)
          \/ Len(orders) < MaxOrders /\ \E u \in Buyers, pl \in PlanIds : BeginTx(p, "manual", 0, u, pl)
          \/ BeginTx(p, "sweep", 0, 0, 0)
    \/ \E p \in TxIds :
          \/ PPSelect(p) \/ PPCommit(p) \/ TxRollback(p) \/ MACommit(p)
          \/ SweepSelect(p) \/ SweepCommit(p)
          \/ \E hookError \in BOOLEAN : PPHook(p, hookError)
          \/ \E fresh \in BOOLEAN : PPReward(p, fresh)
          \/ \E dbError \in BOOLEAN :
                PPActivate(p, dbError) \/ MAActivate(p, dbError) \/ SweepRow(p, dbError)

SpecMemberConc == Init /\ [][NextMemberConc]_vars

\* Settlements and cancellations of the same orders in any interleaving, one
\* call for each process.
NextCancelRace ==
    \/ now < MaxTime /\ Tick
    \/ Len(orders) < MaxOrders /\ \E u \in Buyers, pl \in PlanIds : CreateOrder(u, pl)
    \/ \E p \in TxIds : txn[p].res = "none" /\
          \E o \in 1..MaxOrders, op \in {"settle", "cancel"} : BeginTx(p, op, o, 0, 0)
    \/ \E p \in TxIds :
          \/ PPSelect(p) \/ PPCommit(p) \/ TxRollback(p)
          \/ CancelCheck(p) \/ CancelCommit(p)
          \/ \E hookError \in BOOLEAN : PPHook(p, hookError)
          \/ \E fresh \in BOOLEAN : PPReward(p, fresh)
          \/ \E dbError \in BOOLEAN : PPActivate(p, dbError)

SpecCancelRace == Init /\ [][NextCancelRace]_vars

\* The catalogue under administration and the orders created from it.
NextOrder ==
    \/ now < MaxTime /\ Tick
    \/ \E pl \in PlanIds, to \in {"on", "off", "gone"} : PlanAdmin(pl, to)
    \/ \E pl \in PlanIds, price \in Prices, name \in PlanNames : PlanEdit(pl, price, name)
    \/ Len(orders) < MaxNewOrders /\
          \E u \in Buyers, pl \in PlanIds, d \in Discounts : CreateOrderCall(1, u, pl, d)

SpecOrder == Init /\ [][NextOrder]_vars


\* ------------------------------------------------------------------ reads of tasks

\* What a read answers about one task: its id, status and user.
TaskView(tid, rec) == [tid |-> tid, status |-> rec.status, user |-> rec.user]

\* The ids a store holds, of user u only when `if user_id:` holds.
HeldBy(store, u) ==
    {t \in TaskIds : store[t].status # "none" /\ (u # Anonymous => store[t].user = u)}

\* Creation-descending order of a set of task ids: the latest instant first.
RECURSIVE NewestFirst(_)
NewestFirst(S) ==
    IF S = {} THEN <<>>
    ELSE LET t == CHOOSE t \in S : \A s \in S : s[2] < t[2] \/ (s[2] = t[2] /\ s[1] <= t[1])
         IN  <<t>> \o NewestFirst(S \ {t})

\* The list of one store in creation-ascending order.
ListFromOldestFirst(store, u, limit) ==
    LET all == NewestFirst(HeldBy(store, u))
        ids == SubSeq(all, 1, IF Len(all) < limit THEN Len(all) ELSE limit)
    IN  [i \in 1..Len(ids) |-> TaskView(ids[Len(ids) + 1 - i], store[ids[Len(ids) + 1 - i]])]

\* The user filter, the order and the limit (tasks[:limit]) of a list, over
\* one store.
ListFrom(store, u, limit) ==
    LET all == NewestFirst(HeldBy(store, u))
        ids == SubSeq(all, 1, IF Len(all) < limit THEN Len(all) ELSE limit)
    IN  [i \in 1..Len(ids) |-> TaskView(ids[i], store[ids[i]])]

\* The end of a read: its answer and the store that gave it.
Answer(p, r, ans, src) == [Return(p, r) EXCEPT !.ans = ans, !.src = src]

\* A request thread enters get_task_status(tid) ("status") or
\* list_tasks(limit, u) ("list").
BeginRead(p, op, u, tid, limit) ==
    /\ req[p].pc = "idle"
    /\ req' = [req EXCEPT ![p] =
                 [IdleReq EXCEPT !.op = op, !.user = u, !.tid = tid, !.lim = limit,
                    !.pc = IF op = "status" THEN "gs_cache" ELSE "ls_db"]]
    /\ UNCHANGED <<now, ledgerVars, ncalls, taskVars, memberVars>>

\* AnalysisService.get_task_status, the cache lookup that goes to the backend
\* whatever it finds.
GetTaskStatusBackendAlways(p) ==
    /\ req[p].pc = "gs_cache"
    /\ req' = [req EXCEPT ![p].pc = "gs_db"]
    /\ UNCHANGED <<now, ledgerVars, ncalls, taskVars, memberVars>>

\* AnalysisService.get_task_status: the lookup in _tasks under the lock.
GetTaskStatus(p) ==
    /\ req[p].pc = "gs_cache"
    /\ LET tid == req[p].tid
       IN  req' = [req EXCEPT ![p] =
                     IF tasks[tid].status # "none"
                     THEN Answer(p, "found", <<TaskView(tid, tasks[tid])>>, "cache")
                     ELSE [req[p] EXCEPT !.pc = "gs_db"]]
    /\ UNCHANGED <<now, ledgerVars, ncalls, taskVars, memberVars>>

\* AnalysisService._load_task_from_db: the row, or None when there is none or
\* the backend fails.
LoadTaskFromDb(p, dbError) ==
    /\ req[p].pc = "gs_db"
    /\ LET tid == req[p].tid
       IN  req' = [req EXCEPT ![p] =
                     IF ~dbError /\ stored[tid].status # "none"
                     THEN Answer(p, "found", <<TaskView(tid, stored[tid])>>, "db")
                     ELSE Answer(p, "not_found", <<>>, "none")]
    /\ UNCHANGED <<now, ledgerVars, ncalls, taskVars, memberVars>>

\* AnalysisService._list_tasks_from_db, the query that lets a failure of the
\* backend out.
ListTasksFromDbStrict(p, dbError) ==
    /\ req[p].pc = "ls_db"
    /\ req' = [req EXCEPT ![p] =
                 IF dbError THEN [req[p] EXCEPT !.pc = "raise"]
                 ELSE Answer(p, "listed", ListFrom(stored, req[p].user, req[p].lim), "db")]
    /\ UNCHANGED <<now, ledgerVars, ncalls, taskVars, memberVars>>

\* AnalysisService.list_tasks in durable mode, _list_tasks_from_db: the query;
\* a failure is logged and the call goes on to the cache.
ListTasksFromDb(p, dbError) ==
    /\ req[p].pc = "ls_db"
    /\ req' = [req EXCEPT ![p] =
                 IF dbError THEN [req[p] EXCEPT !.pc = "ls_cache"]
                 ELSE Answer(p, "listed", ListFrom(stored, req[p].user, req[p].lim), "db")]
    /\ UNCHANGED <<now, ledgerVars, ncalls, taskVars, memberVars>>

\* AnalysisService._list_tasks_from_db, the fallback over _tasks.
ListTasksFromCache(p) ==
    /\ req[p].pc = "ls_cache"
    /\ req' = [req EXCEPT ![p] =
                 Answer(p, "listed", ListFrom(tasks, req[p].user, req[p].lim), "cache")]
    /\ UNCHANGED <<now, ledgerVars, ncalls, taskVars, memberVars>>

\* The process stops and starts again: the cache, the pool and the threads are
\* gone, the analysis_tasks table stays.
Restart ==
    /\ tasks' = [t \in TaskIds |-> AbsentTask]
    /\ queue' = [k \in Pools |-> <<>>]
    /\ worker' = [k \in Pools |-> [w \in Workers |-> IdleWorker]]
    /\ executor' = NoPool
    /\ req' = [p \in ReqIds |-> IdleReq]
    /\ UNCHANGED <<now, ledgerVars, ncalls, stored, history, mails, runs, single, memberVars>>

\* The steps of a read.
ReadStep(p) ==
    \/ GetTaskStatus(p)
    \/ ListTasksFromCache(p)
    \/ \E dbError \in BOOLEAN : LoadTaskFromDb(p, dbError)
    \/ \E dbError \in BOOLEAN : ListTasksFromDb(p, dbError)

\* The steps of a submit_analysis whose charge meets no failure.
ReadSubmit(p) ==
    \/ IncSelect(p, FALSE) \/ IncCommit(p) \/ TotalSelect(p, FALSE) \/ TotalCommit(p)
    \/ ExecutorCheck(p) \/ ExecutorCreate(p) \/ ExecutorReturn(p)
    \/ SubmitDispatch(p)
    \/ \E dbError \in BOOLEAN : SubmitCreate(p, dbError)

\* The steps of a worker whose history and report meet no failure.
ReadWork(k, w) ==
    \/ WorkerTake(k, w) \/ WorkerStart(k, w, FALSE) \/ WorkerFinish(k, w, FALSE)
    \/ SaveHistory(k, w, FALSE) \/ SendReport(k, w, TRUE)
    \/ \E out \in Outcomes : WorkerRun(k, w, out)

\* Thread 1 submits for user 1 and anonymously, thread 2 reads, the workers
\* work, the process may restart.
NextRead ==
    \/ now < MaxTaskTime /\ Tick
    \/ Restart
    \/ ReadSubmit(1)
    \/ ReadStep(2)
    \/ ncalls < MaxReadSubmits /\ \E u \in {Anonymous, 1}, c \in Codes : Begin(1, "submit", u, c)
    \/ \E w \in Workers : ReadWork(1, w)
    \/ \E tid \in Codes \X (0..MaxTaskTime) : BeginRead(2, "status", Anonymous, tid, 0)
    \/ \E u \in {Anonymous, 1}, limit \in 1..MaxList : BeginRead(2, "list", u, NoTask, limit)

SpecRead == Init /\ [][NextRead]_vars


\* Settlements of the orders of buyer 1 by process 1, one call after another,
\* and sweeps by process 2, in any interleaving.
NextSweepRace ==
    \/ now < MaxTime /\ Tick
    \/ Len(orders) < MaxOrders /\ CreateOrder(1, 1)
    \/ BeginTx(2, "sweep", 0, 0, 0)
    \/ PPSelect(1) \/ PPCommit(1) \/ TxRollback(1)
    \/ SweepSelect(2) \/ SweepCommit(2)
    \/ \E o \in 1..MaxOrders : BeginTx(1, "settle", o, 0, 0)
    \/ \E hookError \in BOOLEAN : PPHook(1, hookError)
    \/ \E fresh \in BOOLEAN : PPReward(1, fresh)
    \/ \E dbError \in BOOLEAN : PPActivate(1, dbError)
    \/ \E dbError \in BOOLEAN : SweepRow(2, dbError)

SpecSweepRace == Init /\ [][NextSweepRace]_vars


\* The steps of a worker on the work item of an anonymous submit, with a
\* durable backend that may fail at each update.
DurableWork(k, w) ==
    \/ WorkerTake(k, w)
    \/ \E out \in Outcomes : WorkerRun(k, w, out)
    \/ \E dbError \in BOOLEAN : WorkerStart(k, w, dbError)
    \/ \E dbError \in BOOLEAN : WorkerFinish(k, w, dbError)

\* Anonymous submissions one after another, as the clock runs, and the workers
\* over a durable backend that may fail.
NextDurable ==
    \/ now < MaxTaskTime /\ Tick
    \/ PoolSubmit(1)
    \/ ncalls < MaxSubmits /\ \E c \in Codes : Begin(1, "submit", Anonymous, c)
    \/ \E w \in Workers : DurableWork(1, w)

SpecDurable == Init /\ [][NextDurable]_vars


\* ------------------------------------------------------------ the singleton

\* AnalysisService.get_instance: the test outside the lock.
InstanceCheck(p) ==
    /\ req[p].pc = "gi_check"
    /\ req' = [req EXCEPT ![p].pc = IF single.instance = NoInstance THEN "gi_lock"
                                     ELSE "gi_ret"]
    /\ UNCHANGED <<now, ledgerVars, ncalls, taskVars, memberVars>>

\* A get_instance that constructs without the lock and without the second
\* test.
InstanceLockSkipped(p) ==
    /\ req[p].pc = "gi_lock"
    /\ req' = [req EXCEPT ![p].pc = "gi_make"]
    /\ UNCHANGED <<now, ledgerVars, ncalls, taskVars, memberVars>>

\* `with cls._lock:` the thread waits until the lock is free and takes it.
InstanceLock(p) ==
    /\ req[p].pc = "gi_lock"
    /\ single.lock = 0
    /\ single' = [single EXCEPT !.lock = p]
    /\ req' = [req EXCEPT ![p].pc = "gi_check2"]
    /\ UNCHANGED <<now, ledgerVars, ncalls, tasks, queue, worker, executor, stored,
                   history, mails, runs, memberVars>>

\* The test under the lock.
InstanceCheckLocked(p) ==
    /\ req[p].pc = "gi_check2"
    /\ req' = [req EXCEPT ![p].pc = IF single.instance = NoInstance THEN "gi_make"
                                     ELSE "gi_unlock",
                          ![p].raced = single.instance # NoInstance]
    /\ UNCHANGED <<now, ledgerVars, ncalls, taskVars, memberVars>>

\* cls._instance = cls(): a new instance, with its own cache.
InstanceMake(p) ==
    /\ req[p].pc = "gi_make"
    /\ single' = [single EXCEPT !.instance = single.made + 1, !.made = @ + 1]
    /\ req' = [req EXCEPT ![p].pc = "gi_unlock"]
    /\ UNCHANGED <<now, ledgerVars, ncalls, tasks, queue, worker, executor, stored,
                   history, mails, runs, memberVars>>

\* The end of the with block: the lock is released, if this thread holds it.
InstanceUnlock(p) ==
    /\ req[p].pc = "gi_unlock"
    /\ single' = [single EXCEPT !.lock = IF @ = p THEN 0 ELSE @]
    /\ req' = [req EXCEPT ![p].pc = "gi_ret"]
    /\ UNCHANGED <<now, ledgerVars, ncalls, tasks, queue, worker, executor, stored,
                   history, mails, runs, memberVars>>

\* return cls._instance
InstanceReturn(p) ==
    /\ req[p].pc = "gi_ret"
    /\ req' = [req EXCEPT ![p] = [Return(p, "ok") EXCEPT !.inst = single.instance,
                                                         !.raced = req[p].raced]]
    /\ UNCHANGED <<now, ledgerVars, ncalls, taskVars, memberVars>>

\* Request threads call get_instance, the first calls at the same time.
NextInstance ==
    \/ now < MaxTime /\ Tick
    \/ ncalls < MaxCalls /\ \E p \in ReqIds : Begin(p, "instance", Anonymous, 0)
    \/ \E p \in ReqIds :
          \/ InstanceCheck(p) \/ InstanceLock(p) \/ InstanceCheckLocked(p)
          \/ InstanceMake(p) \/ InstanceUnlock(p) \/ InstanceReturn(p)

SpecInstance == Init /\ [][NextInstance]_vars

\* ------------------------------------------------------------------ claims

\* C1: when no chargeOne call is in flight, the count of (user, day) is N, the
\* number of chargeOne calls that returned for that user on that day: there is
\* a row, and every row the day's query returns holds exactly N.
C1_NoLostIncrement ==
    (\A p \in ReqIds : req[p].pc = "idle") =>
        \A u \in Users, d \in Days :
            charged[u][d] > 0 =>
                /\ RowsOf(u, d) # {}
                /\ \A i \in RowsOf(u, d) : usage[i].cnt = charged[u][d]

\* C2: a free user's count for a day never exceeds the free daily limit, when
\* every submit follows an edge check that let the request continue.
C2_WithinLimit ==
    \A i \in 1..Len(usage) :
        snap[usage[i].user].level = "free" => usage[i].cnt <= FreeDailyLimit

\* C3: there is at most one daily_usage row for each (user, date).
C3_OneRowPerDay ==
    \A u \in Users, d \in Days : Cardinality(RowsOf(u, d)) <= 1

\* The steps of pending -> running -> (completed | failed).
StatusStep(a, b) ==
    \/ a = b
    \/ a = "none" /\ b = "pending"
    \/ a = "pending" /\ b = "running"
    \/ a = "running" /\ b \in {"completed", "failed"}

\* C4: the status get_task_status reports for a task id only ever moves along
\* pending -> running -> (completed | failed).
C4_StatusMonotonic ==
    [][\A t \in TaskIds : StatusStep(tasks[t].status, tasks'[t].status)]_vars

\* C5: settle is idempotent.  An order that is paid stays paid, and a settle
\* call that finds its order paid returns success at once and changes no
\* order, no membership row, no snapshot, and does not fire the reward hook.
C5_SettleIdempotent ==
    [][/\ \A o \in 1..Len(orders) :
             orders[o].status = "paid" => orders'[o].status = "paid"
       /\ \A p \in TxIds :
             (/\ txn[p].pc = "pp_sel"
              /\ txn'[p] # txn[p]
              /\ txn[p].order \in 1..Len(orders)
              /\ orders[txn[p].order].status = "paid")
             => /\ txn'[p].pc = "idle"
                /\ txn'[p].res = "ok"
                /\ UNCHANGED <<orders, mships, snap, hooks>>]_vars

\* A second settle call on a settled order has returned.
C5_Replayed ==
    /\ txn[1].op = "settle" /\ txn[1].res = "ok" /\ txn[1].why = "already_paid"
    /\ \E i \in 1..Len(mships) :
          /\ mships[i].order \in 1..Len(orders)
          /\ orders[mships[i].order].method = "wechat"

\* C6: every user has at most one membership row that is active with
\* expire_at in the future.
C6_OneActiveMembership ==
    \A u \in Users : Cardinality(ValidMships(u, now)) <= 1

\* The ticks of the plans of the paid orders of user u among the first n orders.
RECURSIVE PaidTicks(_, _)
PaidTicks(u, n) ==
    IF n = 0 THEN 0
    ELSE PaidTicks(u, n - 1) +
         (IF orders[n].user = u /\ orders[n].status = "paid"
          THEN DaysDelta(PlanDays(orders[n].plan)) ELSE 0)

\* The membership rows of user u.
MshipsOf(u) == {i \in 1..Len(mships) : mships[i].user = u}

\* C7: a settlement of a plan of d days that finds the user's membership
\* active and expiring at T, after the instant the activation reads, commits
\* that row with expire_at = T + d, changes no other row and adds none; so a
\* user whose every paid order went into one row has that row expiring at its
\* start plus the sum of the durations.
C7_ExtendInPlace ==
    /\ [][\A p \in TxIds :
             (txn[p].pc = "pp_commit" /\ txn'[p] # txn[p]) =>
                LET o == txn[p].order
                    d == DaysDelta(PlanDays(orders[o].plan))
                    valid == ValidMships(orders[o].user, txn[p].tact)
                IN  valid # {} =>
                       /\ Len(mships') = Len(mships)
                       /\ \A i \in 1..Len(mships) :
                             mships'[i] = IF i \in valid
                                          THEN [mships[i] EXCEPT !.expire = @ + d]
                                          ELSE mships[i]]_vars
    /\ [](\A u \in Users :
             Cardinality(MshipsOf(u)) = 1 =>
                \A i \in MshipsOf(u) :
                   mships[i].expire = mships[i].start + PaidTicks(u, Len(orders)))

\* A settlement has extended the membership another order started.
C7_Extended ==
    /\ txn[1].op = "settle" /\ txn[1].res = "ok" /\ txn[1].why = "settled"
    /\ Len(mships) = 1
    /\ \E o \in 1..Len(orders) :
          /\ o # mships[1].order
          /\ orders[o].status = "paid" /\ orders[o].method = "wechat"
          /\ mships[1].expire = mships[1].start
                + DaysDelta(PlanDays(mships[1].plan))
                + DaysDelta(PlanDays(orders[o].plan))

\* C8: a settlement of a plan of d days that finds no membership of the user
\* active and unexpired at the instant t the activation reads commits exactly
\* one new row (active, start_at = t, expire_at = t + d, linked to the order)
\* and changes no other row; the commit marks the order paid.
C8_NewMembership ==
    [][\A p \in TxIds :
         (txn[p].pc = "pp_commit" /\ txn'[p] # txn[p]) =>
            LET o == txn[p].order
                u == orders[o].user
                t == txn[p].tact
                d == DaysDelta(PlanDays(orders[o].plan))
            IN  /\ orders'[o].status = "paid"
                /\ ValidMships(u, t) = {} =>
                      mships' = Append(mships,
                                   [user |-> u, plan |-> orders[o].plan, order |-> o,
                                    start |-> t, expire |-> t + d,
                                    status |-> "active"])]_vars

\* A settlement has started a membership for a user whose earlier one is over.
C8_Restarted ==
    /\ txn[1].op = "settle" /\ txn[1].res = "ok" /\ txn[1].why = "settled"
    /\ Len(mships) = 2
    /\ mships[1].user = mships[2].user
    /\ mships[2].order \in 1..Len(orders)
    /\ orders[mships[2].order].method = "wechat"
    /\ orders[mships[2].order].status = "paid"

\* C9: settle is all-or-nothing.  A step of a settle call that returns failure
\* writes nothing; the only step of a settle call that writes an order, a
\* membership row or a snapshot is its commit; and a call that has committed
\* does not return failure.
C9_AllOrNothing ==
    [][\A p \in TxIds :
         (txn[p].op = "settle" /\ txn'[p] # txn[p]) =>
            /\ txn'[p].res = "fail" => UNCHANGED <<orders, mships, snap>>
            /\ <<orders, mships, snap>>' # <<orders, mships, snap>>
                  => txn[p].pc = "pp_commit"
            /\ txn[p].pc \in {"pp_commit", "pp_hook"} => txn'[p].res # "fail"]_vars

\* A settle call has failed in the activation, after mark_paid, and the order
\* is still pending.
C9_FailedAfterMarkPaid ==
    /\ txn[1].op = "settle" /\ txn[1].res = "fail" /\ txn[1].why = "activation"
    /\ Len(orders) = 1
    /\ orders[1].status = "pending"
    /\ mships = <<>>

\* C10: an order becomes paid only in the commit of a settle call for it, and
\* then it was pending and the instant at which the call checked it was not
\* after its deadline; a settle call for an unknown order, for a cancelled,
\* failed or closed order, or for a pending order after its deadline returns
\* failure and leaves the orders as they are.
C10_PaidOnlyWhenPayable ==
    [][\A p \in TxIds :
         (txn[p].op = "settle" /\ txn'[p] # txn[p]) =>
            /\ \A o \in 1..Len(orders) :
                  (orders[o].status # "paid" /\ orders'[o].status = "paid") =>
                     /\ txn[p].pc = "pp_commit"
                     /\ o = txn[p].order
                     /\ orders[o].status = "pending"
                     /\ txn[p].tchk <= orders[o].expire
            /\ (/\ txn[p].pc = "pp_sel"
                /\ \/ txn[p].order \notin 1..Len(orders)
                   \/ orders[txn[p].order].status \in {"cancelled", "failed", "closed"}
                   \/ /\ orders[txn[p].order].status = "pending"
                      /\ now > orders[txn[p].order].expire)
               => /\ txn'[p].res = "fail"
                  /\ UNCHANGED orders]_vars

\* A settle call for a pending order has failed after the order's deadline.
C10_PastDeadline ==
    /\ txn[1].op = "settle" /\ txn[1].res = "fail" /\ txn[1].why = "not_payable"
    /\ Len(orders) = 1
    /\ orders[1].status = "pending"
    /\ now > orders[1].expire

\* C11: an order that is paid stays paid, whatever settle calls and cancel
\* requests do.
C11_PaidIsFinal ==
    [][\A o \in 1..Len(orders) :
         orders[o].status = "paid" => orders'[o].status = "paid"]_vars

\* The membership rows of user u that are active with expire_at after instant
\* t, in the table ms.
ValidIn(ms, u, t) ==
    {i \in 1..Len(ms) : ms[i].user = u /\ ms[i].status = "active" /\ ms[i].expire > t}

\* C12: when a settle, manualActivate or sweep call completes, the snapshot of
\* every user agrees with the membership rows: a user with a membership that
\* is active with expire_at in the future has that expire_at and a paid level
\* in the snapshot, and after a sweep a user with no such membership is on the
\* free tier with no expiry.
C12_SnapshotAgrees ==
    [][\A p \in TxIds :
         (/\ txn[p].pc # "idle" /\ txn'[p].pc = "idle" /\ txn'[p].res = "ok"
          /\ txn[p].op \in {"settle", "manual", "sweep"})
         => \A u \in Users :
               /\ \A i \in ValidIn(mships', u, now') :
                     /\ snap'[u].expire = mships'[i].expire
                     /\ snap'[u].level # "free"
               /\ (txn[p].op = "sweep" /\ ValidIn(mships', u, now') = {})
                     => snap'[u] = [level |-> "free", expire |-> NoTime]]_vars

\* The rows that are active with expire_at before instant t.
LapsedAt(t) ==
    {i \in 1..Len(mships) : mships[i].status = "active" /\ mships[i].expire < t}

\* C13: a sweep that read the clock at t commits status expired for exactly
\* the rows that were active with expire_at < t and returns their number; it
\* changes a snapshot only to reset it to the free tier, only for the owner of
\* such a row who has no other membership active with expire_at in the future,
\* and it does reset the owner who had none at t.
C13_SweepExpires ==
    [][\A p \in TxIds :
         (txn[p].pc = "sw_row" /\ txn'[p].pc = "idle" /\ txn'[p].res = "ok") =>
            LET lapsed == LapsedAt(txn[p].tchk)
                free == [level |-> "free", expire |-> NoTime]
            IN  /\ Len(mships') = Len(mships)
                /\ \A i \in 1..Len(mships) :
                      mships'[i] = IF i \in lapsed
                                   THEN [mships[i] EXCEPT !.status = "expired"]
                                   ELSE mships[i]
                /\ txn'[p].count = Cardinality(lapsed)
                /\ \A u \in Users :
                      LET mine == {i \in lapsed : mships[i].user = u}
                      IN  /\ snap'[u] # snap[u] =>
                                /\ snap'[u] = free
                                /\ mine # {}
                                /\ ValidIn(mships, u, now) = {}
                          /\ (mine # {} /\ ValidIn(mships, u, txn[p].tchk) = {})
                                => snap'[u] = free]_vars

\* A sweep has expired a lapsed row of a user whose later membership is still
\* running, and left the snapshot on that membership.
C13_SweptOneOfTwo ==
    /\ txn[1].op = "sweep" /\ txn[1].res = "ok" /\ txn[1].count = 1
    /\ Len(mships) = 2
    /\ mships[1].user = mships[2].user
    /\ mships[1].status = "expired"
    /\ mships[2].status = "active" /\ mships[2].expire > now
    /\ snap[mships[2].user].expire = mships[2].expire

\* C14: a sweep in which the processing of one lapsed row raises still commits
\* status expired for every other lapsed row.
C14_SweepGoesOn ==
    [][\A p \in TxIds :
         (txn[p].pc = "sw_row" /\ txn'[p].res = "error") =>
            \A i \in LapsedAt(txn[p].tchk) \ {Head(txn[p].todo)} :
               mships'[i].status = "expired"]_vars

\* C15: when charging the ledger fails during submit for a user, submit does
\* not report success and the task's unit of work is not dispatched.
C15_ChargeFailureFailsSubmit ==
    [][\A p \in ReqIds :
          (req[p].pc = "sub_dispatch" /\ req'[p].pc = "idle"
              /\ req[p].user # Anonymous /\ ~req[p].billed)
          => (req'[p].res # "ok" /\ queue' = queue)]_vars

\* C16: in durable mode, when the backend fails while the task record is
\* created, submit does not return success and no work is dispatched.
C16_CreateFailureFailsSubmit ==
    [][\A p \in ReqIds :
          (req[p].pc = "sub_dispatch" /\ req'[p].pc = "idle" /\ ~req[p].kept)
          => (req'[p].res # "ok" /\ queue' = queue)]_vars

\* C17: an accepted submit with a user has raised that user's count by exactly
\* one when it returns, and no step of a worker changes the ledger.
C17_OneUnitPerSubmit ==
    [][/\ \A p \in ReqIds :
             (req[p].pc = "sub_dispatch" /\ req'[p].res = "ok" /\ req[p].user # Anonymous)
             => UsageOf(req[p].user) = req[p].before + 1
       /\ worker' # worker => UNCHANGED ledgerVars]_vars

\* C18: when the unit of work raises with message m, the worker's update leaves
\* the task failed with error m and writes no history, and nothing reaches the
\* submitting threads.
C18_FailureCaptured ==
    [][\A k \in Pools, w \in Workers :
          (worker[k][w].pc = "done" /\ worker'[k][w].pc # "done"
              /\ worker[k][w].out \in {"raise", "raise_blank"})
          => LET tid == worker[k][w].tid
             IN  /\ tasks'[tid].status = "failed"
                 /\ tasks'[tid].error = Message(worker[k][w].out)
                 /\ history' = history
                 /\ req' = req]_vars

\* C19: a task id has at most one history row and at most one mailed report,
\* and has them only while its status is completed.
C19_SideEffectsOnce ==
    \A t \in TaskIds :
        /\ history[t] <= 1 /\ mails[t] <= 1
        /\ (history[t] > 0 \/ mails[t] > 0) => tasks[t].status = "completed"

\* C20: at most max_workers work items are inside the unit of work.
C20_AtMostMaxWorkers ==
    Cardinality({kw \in Pools \X Workers : worker[kw[1]][kw[2]].pc = "work"}) <= MaxWorkers

\* C21: a work item enters running only when no work item dispatched before it
\* is still waiting, in the queue or in the hands of a worker that has not yet
\* written running.
C21_StartInOrder ==
    [][\A k \in Pools, w \in Workers :
          (worker[k][w].pc = "start" /\ worker'[k][w].pc = "work")
          => /\ \A j \in Pools, v \in Workers :
                   worker[j][v].pc = "start" => worker[j][v].n >= worker[k][w].n
             /\ \A j \in Pools : \A i \in 1..Len(queue[j]) :
                   queue[j][i].n >= worker[k][w].n]_vars

\* C22: submit records the task as pending, queues the work item and returns
\* success; under fair scheduling of the request thread alone it returns, even
\* when no unit of work ever completes.
C22_SubmitReturns ==
    /\ [][\A p \in ReqIds :
             /\ (req[p].pc = "sub_create" /\ req'[p].pc # "sub_create")
                => tasks'[req'[p].tid].status = "pending"
             /\ (req[p].pc = "sub_dispatch" /\ req'[p].pc = "idle")
                => /\ req'[p].res = "ok"
                   /\ Len(queue'[req[p].pool]) = Len(queue[req[p].pool]) + 1]_vars
    /\ \A p \in ReqIds : (req[p].pc # "idle") ~> (req[p].pc = "idle" /\ req[p].res = "ok")

\* A submit has returned and its work item waits behind workers that are all
\* inside a unit of work.
C22_ReturnedWhileBusy ==
    \E p \in ReqIds, k \in Pools :
        /\ req[p].res = "ok"
        /\ queue[k] # <<>>
        /\ \A w \in Workers : worker[k][w].pc = "work"

\* C23: under fair scheduling, with every unit of work returning or raising, a
\* task that is pending or running eventually is completed or failed, every
\* queued work item is eventually taken and every worker eventually is done
\* with its item.
C23_TasksTerminate ==
    /\ \A t \in TaskIds :
          (tasks[t].status \in {"pending", "running"})
              ~> (tasks[t].status \in {"completed", "failed"})
    /\ \A k \in Pools :
          /\ (queue[k] # <<>>) ~> (queue[k] = <<>>)
          /\ \A w \in Workers : (worker[k][w].pc # "idle") ~> (worker[k][w].pc = "idle")

\* Every submission was made, the pools are drained and a task that waited in a
\* queue is terminal.
C23_AllDone ==
    /\ ncalls = MaxSubmits
    /\ \A p \in ReqIds : req[p].pc = "idle"
    /\ \A k \in Pools : queue[k] = <<>> /\ \A w \in Workers : worker[k][w].pc = "idle"
    /\ \E t \in TaskIds : tasks[t].status \in {"completed", "failed"}

\* C24: when the reward hook raises after the settlement committed, settle
\* still returns success and the committed orders, memberships and snapshots
\* stay as committed.
C24_HookFailureContained ==
    [][\A p \in TxIds :
          (txn[p].pc = "pp_hook" /\ txn'[p].pc = "idle")
          => (txn'[p].res = "ok" /\ UNCHANGED <<orders, mships, snap>>)]_vars

\* C25: when the update of the lifetime counter fails after the day's counter
\* was incremented, chargeOne returns the day's new count, and the committed
\* increment stays: the ledger is left as the first step wrote it.
C25_TotalFailureContained ==
    [][\A p \in ReqIds :
          (req[p].op = "charge" /\ req[p].pc = "tot_sel" /\ req'[p].pc = "idle")
          => /\ req'[p].res = "ok"
             /\ req'[p].cnt = req[p].cnt /\ req[p].cnt >= 1
             /\ \E i \in RowsOf(req[p].user, req[p].day) : usage'[i].cnt >= 1
             /\ usage' = usage /\ total' = total]_vars

\* The only chargeOne call made returned count 1 with the day's row at 1 and
\* the lifetime counter not updated.
C25_ChargedWithoutTotal ==
    \E p \in ReqIds :
        /\ ncalls = 1
        /\ req[p].op = "charge" /\ req[p].res = "ok" /\ req[p].cnt = 1
        /\ total[req[p].user] = 0
        /\ \E i \in RowsOf(req[p].user, DateOf(now)) : usage[i].cnt = 1

\* The step is a create_order call of process 1.
CreateStep == txn'[1].op = "create" /\ (txn'[1] # txn[1] \/ orders' # orders)

\* What a create_order call leaves, pay being the amount the order must carry
\* for price and discount.
CreateEffect(Pay(_, _)) ==
    LET pl == txn'[1].plan
    IN  /\ \A o \in 1..Len(orders) :
              Len(orders') >= o /\ orders'[o].amount = orders[o].amount
                                /\ orders'[o].name = orders[o].name
        /\ CreateStep =>
              IF plans[pl].state = "on"
              THEN /\ txn'[1].res = "ok"
                   /\ Len(orders') = Len(orders) + 1
                   /\ LET new == orders'[Len(orders')]
                      IN  /\ new.status = "pending" /\ new.user = txn'[1].user
                          /\ new.plan = pl
                          /\ new.amount = plans[pl].price /\ new.name = plans[pl].name
                          /\ new.pay = Pay(plans[pl].price, new.discount)
                          /\ new.expire = now + OrderTTL
              ELSE txn'[1].res = "fail" /\ orders' = orders

PayLess(price, discount) == price - discount

PayClamped(price, discount) == IF price - discount > 0 THEN price - discount ELSE 0

\* C28 as stated: createOrder for a plan on sale creates a pending order with
\* the plan's price and name of that moment, pay_amount = price - discount and
\* the deadline now + 2h; for an unknown or inactive plan it fails and creates
\* no order.
C28_OrderAsStated == [][CreateEffect(PayLess)]_vars

\* C28, amended: the same, with pay_amount = max(0, price - discount); the
\* amount and the name of an order never change afterwards.
C28_OrderSnapshot == [][CreateEffect(PayClamped)]_vars

\* An order was created with a discount above the plan's price, and the plan
\* was given another price afterwards.
C28_DiscountAbovePrice ==
    \E o \in 1..Len(orders) :
        /\ orders[o].discount > orders[o].amount /\ orders[o].pay = 0
        /\ plans[orders[o].plan].price # orders[o].amount

\* The membership rows and the snapshots an activation of plan pl for user u
\* at instant t, for order o, must leave: the one valid row longer by the
\* plan's duration, or else a new row from t.
ActivationEffect(u, pl, t, o) ==
    LET valid == {i \in 1..Len(mships) :
                     mships[i].user = u /\ mships[i].status = "active" /\ mships[i].expire > t}
        days == DaysDelta(PlanDays(pl))
        until == IF valid = {} THEN t + days
                 ELSE mships[CHOOSE i \in valid : TRUE].expire + days
    IN  /\ IF valid = {}
           THEN mships' = Append(mships, [user |-> u, plan |-> pl, order |-> o,
                                          start |-> t, expire |-> until,
                                          status |-> "active"])
           ELSE /\ Len(mships') = Len(mships)
                /\ \A i \in 1..Len(mships) :
                      mships'[i] = IF i \in valid THEN [mships[i] EXCEPT !.expire = until]
                                   ELSE mships[i]
        /\ \A v \in Users :
              snap'[v] = IF v = u THEN [level |-> PlanLevel(pl), expire |-> until]
                         ELSE snap[v]

\* C26: the commit of manualActivate and the commit of settle change the
\* membership rows and the snapshot in the same way, that of one activation of
\* the plan for the user; manualActivate adds an order of amount zero that is
\* paid, settle marks its own order paid.
C26_ManualAsSettle ==
    [][\A p \in TxIds :
          /\ (txn[p].pc = "ma_commit" /\ txn'[p].pc # "ma_commit")
             => /\ ActivationEffect(txn[p].user, txn[p].plan, txn[p].tact, Len(orders) + 1)
                /\ Len(orders') = Len(orders) + 1
                /\ \A o \in 1..Len(orders) : orders'[o] = orders[o]
                /\ LET new == orders'[Len(orders')]
                   IN  /\ new.user = txn[p].user /\ new.plan = txn[p].plan
                       /\ new.status = "paid" /\ new.amount = 0 /\ new.pay = 0
          /\ (txn[p].pc = "pp_commit" /\ txn'[p].pc # "pp_commit")
             => /\ ActivationEffect(orders[txn[p].order].user, orders[txn[p].order].plan,
                                    txn[p].tact, txn[p].order)
                /\ Len(orders') = Len(orders)
                /\ orders'[txn[p].order].status = "paid"]_vars

\* manualActivate has extended the membership a settlement had opened.
C26_ManualExtended ==
    /\ txn[1].op = "manual" /\ txn[1].res = "ok"
    /\ \E o \in 1..Len(orders), i \in 1..Len(mships) :
          /\ orders[o].method = "manual" /\ orders[o].status = "paid" /\ orders[o].amount = 0
          /\ mships[i].user = orders[o].user /\ mships[i].order # o
          /\ orders[mships[i].order].status = "paid"
          /\ orders[mships[i].order].method # "manual"
          /\ mships[i].expire > mships[i].start + DaysDelta(PlanDays(mships[i].plan))

\* C27: checkAndGetLimit returns: for a user whose paid entitlement is valid
\* the limit is unlimited and the request is allowed whatever the count; for
\* any other user the limit is the free-tier one (the configured row's value,
\* else the default) and the request is allowed exactly when the count is
\* below it.
C27_LimitCheck ==
    [][\A p \in ReqIds :
          (req[p].op = "check" /\ req[p].pc # "idle" /\ req'[p].pc = "idle")
          => /\ req'[p].res \in {"allowed", "rejected"}
             /\ IF req[p].member
                THEN req[p].lim = Unlimited /\ req'[p].res = "allowed"
                ELSE /\ req[p].lim = IF req[p].conf = NoConfig THEN FreeDailyLimit
                                     ELSE req[p].conf[1]
                     /\ req'[p].res = "allowed" <=> req[p].rd < req[p].lim]_vars

\* Thread p takes a step of its read (and the process does not restart).
ReadMoves(p) == req'[p] # req[p] /\ req'[p].op = req[p].op

\* getStatus: an id in the cache is answered from the cache, the backend is
\* asked only when the cache lacks the id, and an id the backend lacks too (or
\* a failing backend) gives NotFound.
StatusCacheFirst(p) ==
    /\ req[p].pc = "gs_cache" =>
          IF tasks[req[p].tid].status # "none"
          THEN /\ req'[p].pc = "idle" /\ req'[p].res = "found" /\ req'[p].src = "cache"
               /\ req'[p].ans = <<TaskView(req[p].tid, tasks[req[p].tid])>>
          ELSE req'[p].pc = "gs_db"
    /\ req[p].pc = "gs_db" =>
          /\ req'[p].pc = "idle"
          /\ \/ req'[p].res = "not_found" /\ req'[p].ans = <<>>
             \/ /\ stored[req[p].tid].status # "none"
                /\ req'[p].res = "found" /\ req'[p].src = "db"
                /\ req'[p].ans = <<TaskView(req[p].tid, stored[req[p].tid])>>

\* C29, as stated: every read, getStatus and list, answers a task in the cache
\* from the cache, asks the durable backend only for what the cache lacks, and
\* answers NotFound for an id in neither.
C29_ReadsCacheFirst ==
    [][\A p \in ReqIds :
          ReadMoves(p) =>
             /\ StatusCacheFirst(p)
             /\ (req[p].pc = "ls_db" /\ req'[p].pc = "idle") =>
                   \/ req'[p].src = "cache"
                   \/ \A i \in DOMAIN req'[p].ans : tasks[req'[p].ans[i].tid].status = "none"]_vars

\* C29, amended: getStatus is cache first (cache entry when present, backend
\* only when the cache lacks the id, NotFound when the backend has no row or
\* fails); list in durable mode asks the backend first and answers from its
\* rows alone, going to the cache only when the query fails.
C29_StatusCacheFirstListBackendFirst ==
    [][\A p \in ReqIds :
          ReadMoves(p) =>
             /\ StatusCacheFirst(p)
             /\ req[p].pc = "ls_db" =>
                   \/ req'[p].pc = "ls_cache"
                   \/ /\ req'[p].pc = "idle" /\ req'[p].res = "listed" /\ req'[p].src = "db"
                      /\ req'[p].ans = ListFrom(stored, req[p].user, req[p].lim)
             /\ (req[p].op = "list" /\ req'[p].src = "cache") => req[p].pc = "ls_cache"]_vars

\* A getStatus was answered by the backend for an id the cache lacked, and a
\* list was answered by the backend with a task of the cache left out.
C29_AnsweredByBackend ==
    \E p \in ReqIds :
       /\ req[p].op = "status" /\ req[p].res = "found" /\ req[p].src = "db"
       /\ tasks[req[p].ans[1].tid].status = "none"

\* C30: in durable mode a failure of the backend during list does not fail
\* the call: list answers the tasks of the cache, with the same user filter,
\* newest first, cut at the limit.
C30_ListDegrades ==
    [][\A p \in ReqIds :
          ReadMoves(p) =>
             /\ req[p].pc = "ls_db" => req'[p].pc \in {"idle", "ls_cache"} /\ req'[p].res # "error"
             /\ req[p].pc = "ls_cache" =>
                   /\ req'[p].pc = "idle" /\ req'[p].res = "listed" /\ req'[p].src = "cache"
                   /\ req'[p].ans = ListFrom(tasks, req[p].user, req[p].lim)]_vars

\* A list was answered from the cache, which held two tasks, with one of them:
\* the filter or the limit cut the other.
C30_DegradedList ==
    \E p \in ReqIds :
       /\ req[p].op = "list" /\ req[p].res = "listed" /\ req[p].src = "cache"
       /\ Len(req[p].ans) = 1
       /\ Cardinality(HeldBy(tasks, Anonymous)) = 2

\* C31: list(user, limit) answers at most limit tasks, only tasks of the given
\* user when a user filter is given, in creation-descending order, whether the
\* answer comes from the cache or from the durable backend.
C31_ListShape ==
    [][\A p \in ReqIds :
          (ReadMoves(p) /\ req[p].op = "list" /\ req'[p].pc = "idle") =>
             LET a == req'[p].ans
                 store == IF req'[p].src = "cache" THEN tasks ELSE stored
             IN  /\ req'[p].src \in {"cache", "db"}
                 /\ Len(a) <= req[p].lim
                 /\ \A i \in DOMAIN a :
                       /\ store[a[i].tid].status = a[i].status
                       /\ a[i].status # "none"
                       /\ req[p].user # Anonymous => a[i].user = req[p].user
                 /\ \A i \in DOMAIN a : \A j \in DOMAIN a : i < j => a[i].tid[2] >= a[j].tid[2]
                 /\ \A t \in HeldBy(store, req[p].user) :
                       (\E i \in DOMAIN a : a[i].tid = t)
                       \/ (Len(a) = req[p].lim /\ \A i \in DOMAIN a : a[i].tid[2] >= t[2])]_vars

\* A list answered two tasks, the later created first although the earlier
\* created one finished and the later one did not.
C31_NewestFirstNotLastFinished ==
    \E p \in ReqIds :
       /\ req[p].op = "list" /\ req[p].res = "listed" /\ Len(req[p].ans) = 2
       /\ req[p].ans[1].tid[2] > req[p].ans[2].tid[2]
       /\ req[p].ans[1].status \in {"pending", "running"}
       /\ req[p].ans[2].status \in {"completed", "failed"}

\* C32: distinct submit calls obtain distinct task ids, so no two workers ever
\* hold and update the same task id, also when two submissions for the same
\* stock code arrive at the same clock instant.
C32_OneWorkerPerTaskId ==
    \A a \in Pools \X Workers : \A b \in Pools \X Workers :
        (/\ a # b
         /\ worker[a[1]][a[2]].pc # "idle"
         /\ worker[b[1]][b[2]].pc # "idle")
        => worker[a[1]][a[2]].tid # worker[b[1]][b[2]].tid

\* C33: the unit of work is invoked at most once per task: no task id is ever
\* run a second time, after a failure or otherwise.
C33_RunOncePerTask == \A t \in TaskIds : runs[t] <= 1

\* C34: whatever the interleaving of two settle calls for the same pending
\* order, the order's plan is applied to the membership once: a settlement
\* commits only for an order no settlement has committed before, and at most
\* one membership row comes from one order.
C34_AppliedOncePerOrder ==
    [][\A p \in TxIds :
          (txn[p].pc = "pp_commit" /\ txn'[p] # txn[p])
          => /\ orders[txn[p].order].status # "paid"
             /\ Cardinality({i \in 1..Len(mships') : mships'[i].order = txn[p].order}) <= 1]_vars

\* C35: whatever the interleaving of a sweep with a settlement, the commit of
\* the sweep marks expired no membership whose expire_at is in the future, and
\* resets no user's snapshot to the free tier while the user has an active
\* membership with expire_at in the future.
C35_SweepSparesValid ==
    [][\A p \in TxIds :
          (txn[p].pc = "sw_row" /\ txn'[p].pc = "idle" /\ txn'[p].res = "ok")
          => /\ \A i \in 1..Len(mships) :
                   (mships[i].status = "active" /\ mships'[i].status = "expired")
                   => mships[i].expire <= now
             /\ \A u \in Users :
                   (snap'[u] # snap[u] /\ snap'[u].level = "free")
                   => \A i \in 1..Len(mships') :
                         ~(/\ mships'[i].user = u
                           /\ mships'[i].status = "active"
                           /\ mships'[i].expire > now)]_vars

\* C36: in every state the payload of a task matches its status: a pending or
\* running task has neither result nor error, a completed task has a result
\* and no error, a failed task has a non-empty error and no result.
C36_PayloadMatchesStatus ==
    \A t \in TaskIds :
        CASE tasks[t].status \in {"pending", "running"} ->
                ~Truthy(tasks[t].result) /\ ~Truthy(tasks[t].error)
          [] tasks[t].status = "completed" ->
                Truthy(tasks[t].result) /\ ~Truthy(tasks[t].error)
          [] tasks[t].status = "failed" ->
                Truthy(tasks[t].error) /\ ~Truthy(tasks[t].result)
          [] OTHER -> TRUE

\* C37: in durable mode, once a worker's transition of a task has finished,
\* the status in the cache equals the status of the task's durable record,
\* also when the durable update fails.
C37_CacheMatchesRecord ==
    [][\A k \in Pools, w \in Workers :
          (worker[k][w].pc \in {"start", "done"} /\ worker'[k][w].pc # worker[k][w].pc)
          => LET tid == worker[k][w].tid
             IN  stored'[tid].status # "none" => tasks'[tid].status = stored'[tid].status]_vars

\* C38: across the settled orders of a referred user, settled one after the
\* other or concurrently, the referrer's bonus is credited for subscription at
\* most once: the record's flag goes from unset to set once and never back,
\* and the balance grows only in a step that finds the flag unset.
C38_RewardOnce ==
    [][\A u \in Users :
          /\ hooks[u].given => hooks'[u].given
          /\ hooks'[u].bonus # hooks[u].bonus
                => (~hooks[u].given /\ hooks'[u].given /\ hooks'[u].bonus = hooks[u].bonus + 1)]_vars

\* C39: under any interleaving of concurrent first calls of get_instance, one
\* instance is constructed and every caller receives it.
C39_OneInstance ==
    /\ single.made <= 1
    /\ \A p \in ReqIds :
          (req[p].op = "instance" /\ req[p].res = "ok")
          => (req[p].inst # NoInstance /\ req[p].inst = single.instance /\ single.made = 1)

\* Two threads called get_instance at once: one of them passed the first test
\* while there was no instance and found the other's instance under the lock,
\* and both returned.
C39_BothReturnedAfterRace ==
    /\ \A p \in ReqIds : req[p].op = "instance" /\ req[p].res = "ok"
    /\ \E p \in ReqIds : req[p].raced

====
